---- MODULE Spec2Model ----
(***************************************************************************)
(* Verification model of the counselor-rag note pipeline.                  *)
(*                                                                         *)
(*   backend/soap_parser.py      SOAPParser: detection, segmentation and   *)
(*                               chunking of session notes                 *)
(*   backend/document_loader.py  DocumentLoader.chunk_document and         *)
(*                               process_client_documents                  *)
(*   backend/rag_engine.py       RAGEngine.retrieve_relevant_chunks and    *)
(*                               its nested ranking stages,                *)
(*                               ingest_client_documents, the collection   *)
(*                               cache and InMemoryVectorDB                *)
(*   backend/license_manager.py  LicenseManager: trial status and limits   *)
(*   backend/main.py             the routes /query and /query/stream       *)
(*                                                                         *)
(* Specifications: SpecRank (one retrieval), Spec (chunking of a note),    *)
(* SpecIngest (ingestions of one client's files), SpecEngine (concurrent   *)
(* retrievals and an ingestion on one engine), SpecLicense and SpecRoute.  *)
(*                                                                         *)
(* Texts are sequences of one-character strings, so that the regular       *)
(* expressions, lower(), strip() and len() of the source are computed      *)
(* character by character.                                                 *)
(*                                                                         *)
(* Scores are Python floats in the source.  Here they are exact rationals  *)
(* with the fixed denominator ScoreDen: a score s is the integer           *)
(* s * ScoreDen.  Float rounding is not modelled.                          *)
(***************************************************************************)
EXTENDS Integers, Sequences, FiniteSets, TLC

VARIABLES
    \* ---- retrieval pipeline (rag_engine.py, retrieve_relevant_chunks) ----
    rpc,                \* position in retrieve_relevant_chunks
    query,              \* argument query
    query_embedding,    \* result of embed_text
    failure,            \* the external call that failed, or "none"
    embed_calls,        \* calls of embedding_model.encode
    search_calls,       \* calls of the similarity search
    n_results,          \* the number of candidates the search was asked for
    query_entities,     \* result of _extract_query_entities
    relevant_chunks,    \* candidates returned by the similarity search
    reranked_chunks,    \* after _rerank_chunks_with_keyword_matching
    diverse_chunks,     \* after _apply_diversity_filtering
    final_chunks,       \* after _apply_dynamic_threshold and [:top_k]
    max_per_meeting,    \* argument max_chunks_per_meeting
    top_k,              \* requested result count
    \* ---- note pipeline (soap_parser.py, document_loader.py) ----
    npc,                \* position in the chunking entry point
    text,               \* MeetingNote.content / a section's content
    arg_section_type,   \* the section_type a text is chunked as on its own
    soap_content,       \* SOAPContent returned by parse_soap_note
    soap_chunks,        \* SOAPChunks of create_soap_chunks / _chunk_section_content
    chunks,             \* DocumentChunks returned by chunk_document
    ipc,                \* position in ingest_client_documents
    client_files,       \* the *.txt files of the client directory, in glob order
    chroma_available,   \* CHROMA_AVAILABLE
    force_reprocess,    \* argument force_reprocess
    metadata_cache,     \* DocumentLoader.metadata_cache: cache keys and file hashes
    all_chunks,         \* result of process_client_documents
    store,              \* the client's collection / InMemoryVectorDB.data[client_id]
    ingestions,         \* finished calls of ingest_client_documents
    after_first,        \* history: store when the first call finished
    edits,              \* rewrites of a note file
    license_data,       \* LicenseManager.license_data, as saved
    checked,            \* the last can_* method called, or "none"
    allowed,            \* the boolean that method returned
    \* ---- the engine's vector store under concurrent calls (rag_engine.py) ----
    engine_chroma,      \* CHROMA_AVAILABLE of the running engine
    chroma_client,      \* the collections of self.chroma_client, by client
    client_collections, \* keys of the cache self.client_collections
    vector_db,          \* InMemoryVectorDB.data
    calls,              \* the invocations of retrieve_relevant_chunks
    writer,             \* the invocation of ingest_client_documents
    cache_writer,       \* history: the running call that cached a collection
    ever_ingested,      \* history: the chunks ever written, by client
    engine_runs,        \* started calls of either method
    \* ---- the query routes (main.py) ----
    api_pc,             \* position in the route handler
    req,                \* the QueryRequest
    can_use,            \* license_manager.can_use_feature()[0]
    entered,            \* the engine method whose body ran, or "none"
    response            \* what the route sent back

\* the variables of the external calls of a retrieval
qvars == <<query, query_embedding, failure, embed_calls, search_calls,
           n_results>>
rvars == <<rpc, query, query_embedding, failure, embed_calls, search_calls,
           n_results,
           query_entities, relevant_chunks, reranked_chunks,
           diverse_chunks, final_chunks, max_per_meeting, top_k>>
nvars == <<npc, text, arg_section_type, soap_content, soap_chunks, chunks>>
vars == <<rpc, query, query_embedding, failure, embed_calls, search_calls,
          n_results,
          query_entities, relevant_chunks, reranked_chunks,
          diverse_chunks, final_chunks, max_per_meeting, top_k,
          npc, text, arg_section_type, soap_content, soap_chunks, chunks,
          ipc, client_files, chroma_available, force_reprocess,
          metadata_cache, all_chunks, store, ingestions, after_first, edits,
          license_data, checked, allowed,
          engine_chroma, chroma_client, client_collections, vector_db,
          calls, writer, cache_writer, ever_ingested, engine_runs,
          api_pc, req, can_use, entered, response>>
lvars == <<license_data, checked, allowed>>
ivars == <<ipc, client_files, chroma_available, force_reprocess,
           metadata_cache, all_chunks, store, ingestions, after_first, edits>>
\* what a step of the retrieval pipeline, and of the note pipeline, leaves alone
evars == <<engine_chroma, chroma_client, client_collections, vector_db,
           calls, writer, cache_writer, ever_ingested, engine_runs>>
avars == <<api_pc, req, can_use, entered, response>>
outside_r == <<nvars, ivars, lvars, evars, avars>>
outside_n == <<rvars, ivars, lvars, evars, avars>>
outside_i == <<rvars, nvars, lvars, evars, avars>>
outside_l == <<rvars, nvars, ivars, evars, avars>>
outside_e == <<rvars, nvars, ivars, lvars, avars>>
outside_a == <<rvars, nvars, ivars, lvars, evars>>

\* no ingestion in progress, nothing stored
IIdle ==
    /\ ipc = "off"
    /\ client_files = <<>>
    /\ chroma_available = FALSE
    /\ force_reprocess = FALSE
    /\ metadata_cache = {}
    /\ all_chunks = <<>>
    /\ store = <<>>
    /\ ingestions = 0
    /\ after_first = <<>>
    /\ edits = 0

\* a license written by _create_trial_license at time now.  trial_start is
\* the number of whole days between trial_start and now, trial_end is <<>>
\* when the key is absent and <<d>> for a trial end d days after now, hybrid
\* says that the key anonymous_trial_end is present, user_account that the
\* account is not None.
NewTrialLicense ==
    [license_type |-> "anonymous_trial", trial_start |-> 0, hybrid |-> TRUE,
     user_account |-> FALSE, trial_end |-> <<>>,
     clients_created |-> 0, documents_uploaded |-> 0, total_queries |-> 0]

\* no license check made
LIdle ==
    /\ license_data = NewTrialLicense
    /\ checked = "none"
    /\ allowed = FALSE

\* the engine as constructed and never called
EIdle ==
    /\ engine_chroma = FALSE
    /\ chroma_client = <<>>
    /\ client_collections = {}
    /\ vector_db = <<>>
    /\ calls = <<>>
    /\ writer = <<>>
    /\ cache_writer = <<>>
    /\ ever_ingested = <<>>
    /\ engine_runs = [retrievals |-> 0, ingestions |-> 0]

\* no request received
AIdle ==
    /\ api_pc = "off"
    /\ req = <<>>
    /\ can_use = FALSE
    /\ entered = "none"
    /\ response = <<>>

(***************************************************************************)
(* Bounds of the model.                                                    *)
(***************************************************************************)
MaxCands == 3
MaxPerArg == 2
MaxTopK == 2
MaxFrags == 3
MaxSentences == 3
MaxFiles == 2
MaxIngests == 2
MaxUsage == 1
MaxEdits == 1

(***************************************************************************)
(* Generic helpers.                                                        *)
(***************************************************************************)
Min2(a, b) == IF a <= b THEN a ELSE b
Max2(a, b) == IF a >= b THEN a ELSE b

RECURSIVE SumSeq(_)
SumSeq(s) == IF s = <<>> THEN 0 ELSE Head(s) + SumSeq(Tail(s))

SetMax(S) == CHOOSE x \in S : \A y \in S : y <= x
SetMin(S) == CHOOSE x \in S : \A y \in S : x <= y

RECURSIVE Flatten(_)
Flatten(ss) == IF ss = <<>> THEN <<>> ELSE Head(ss) \o Flatten(Tail(ss))

\* [c] * n
Rep(c, n) == [i \in 1..n |-> c]

\* {**a, **b}: the keys of both dicts, b's value where both have the key
DictMerge(a, b) ==
    [k \in DOMAIN a \cup DOMAIN b |-> IF k \in DOMAIN b THEN b[k] ELSE a[k]]

(***************************************************************************)
(* Characters: str.lower(), \s, \w of Python's re.                          *)
(***************************************************************************)
UpperChars == <<"A","B","C","D","E","F","G","H","I","J","K","L","M",
                "N","O","P","Q","R","S","T","U","V","W","X","Y","Z">>
LowerChars == <<"a","b","c","d","e","f","g","h","i","j","k","l","m",
                "n","o","p","q","r","s","t","u","v","w","x","y","z">>
DigitChars == {"0","1","2","3","4","5","6","7","8","9"}

UpperSet == {UpperChars[i] : i \in 1..26}
LowerSet == {LowerChars[i] : i \in 1..26}

LowerChar(c) ==
    IF c \in UpperSet
    THEN LowerChars[CHOOSE i \in 1..26 : UpperChars[i] = c]
    ELSE c

Lower(s) == [i \in 1..Len(s) |-> LowerChar(s[i])]

IsSpace(c) == c \in {" ", "\n", "\t", "\r"}
IsWordChar(c) == c \in UpperSet \cup LowerSet \cup DigitChars \cup {"_"}

\* needle in haystack (Python's `in` on str)
Contains(hay, needle) ==
    \E i \in 1..(Len(hay) - Len(needle) + 1) :
        \A k \in 1..Len(needle) : hay[i + k - 1] = needle[k]

\* str.strip(): the text without its leading and trailing whitespace
RECURSIVE FirstNonSpace(_, _)
FirstNonSpace(s, i) ==
    IF i <= Len(s) /\ IsSpace(s[i]) THEN FirstNonSpace(s, i + 1) ELSE i

RECURSIVE LastNonSpace(_, _)
LastNonSpace(s, i) ==
    IF i >= 1 /\ IsSpace(s[i]) THEN LastNonSpace(s, i - 1) ELSE i

Strip(s) == SubSeq(s, FirstNonSpace(s, 1), LastNonSpace(s, Len(s)))

(***************************************************************************)
(* RETRIEVAL PIPELINE: rag_engine.py, retrieve_relevant_chunks             *)
(***************************************************************************)

\* Fixed numbers of the source.
W_VECTOR == 6            \* 0.6, in tenths
W_KEYWORD == 3           \* 0.3, in tenths
W_METADATA == 1          \* 0.1, in tenths
BOOST_WEEK == 15         \* 0.15, in hundredths
BOOST_MONTH == 10        \* 0.10, in hundredths
BOOST_QUARTER == 5       \* 0.05, in hundredths
BOOST_TITLE == 10        \* 0.1, in hundredths
DAYS_WEEK == 7
DAYS_MONTH == 30
DAYS_QUARTER == 90
MIN_CHUNKS == 2          \* min_chunks passed by retrieve_relevant_chunks
HIGH_MAX == 8            \* max_score > 0.8, in tenths
MID_MAX == 6             \* max_score > 0.6, in tenths
HIGH_FLOOR == 6          \* max(0.6, mean), in tenths
MID_FLOOR == 4           \* max(0.4, 0.8 * mean), in tenths
LOW_FLOOR == 3           \* max(0.3, 0.6 * mean), in tenths
MID_MEAN == 8            \* mean_score * 0.8, in tenths
LOW_MEAN == 6            \* mean_score * 0.6, in tenths

SalienceTerms == <<<<"b","r","e","a","k","t","h","r","o","u","g","h">>, <<"c","r","i","s","i","s">>, <<"i","m","p","o","r","t","a","n","t">>, <<"s","i","g","n","i","f","i","c","a","n","t">>>>

(***************************************************************************)
(* _extract_query_entities (lines 243-277)                                 *)
(***************************************************************************)
\* counseling_keywords (lines 248-253)
CounselingKeywords == {
    <<"a","n","x","i","e","t","y">>, <<"d","e","p","r","e","s","s","i","o","n">>, <<"s","t","r","e","s","s">>, <<"t","h","e","r","a","p","y">>, <<"s","e","s","s","i","o","n">>,
    <<"p","r","o","g","r","e","s","s">>, <<"g","o","a","l","s">>, <<"c","h","a","l","l","e","n","g","e">>, <<"s","t","r","u","g","g","l","e">>, <<"i","m","p","r","o","v","e","m","e","n","t">>,
    <<"b","r","e","a","k","t","h","r","o","u","g","h">>, <<"r","e","l","a","t","i","o","n","s","h","i","p">>, <<"f","a","m","i","l","y">>, <<"w","o","r","k">>, <<"c","a","r","e","e","r">>,
    <<"e","m","o","t","i","o","n","a","l">>, <<"f","e","e","l","i","n","g","s">>, <<"c","o","p","i","n","g">>, <<"s","t","r","a","t","e","g","i","e","s">>,
    <<"t","e","c","h","n","i","q","u","e","s">>, <<"h","o","m","e","w","o","r","k">>, <<"a","s","s","i","g","n","m","e","n","t">> }

\* stop_words (line 272)
StopWords == {
    <<"t","h","e">>, <<"a","n","d">>, <<"o","r">>, <<"b","u","t">>, <<"i","n">>, <<"o","n">>, <<"a","t">>, <<"t","o">>, <<"f","o","r">>, <<"o","f">>, <<"w","i","t","h">>, <<"b","y">>,
    <<"w","a","s">>, <<"w","e","r","e">>, <<"i","s">>, <<"a","r","e">>, <<"w","h","a","t">>, <<"w","h","e","n">>, <<"w","h","e","r","e">>, <<"h","o","w">>, <<"w","h","y">>, <<"d","i","d">>,
    <<"d","o","e","s">>, <<"w","i","l","l">>, <<"w","o","u","l","d">>, <<"c","o","u","l","d">>, <<"s","h","o","u","l","d">> }

MEANINGFUL_MIN == 4      \* \w{4,}

\* re.findall(r'"([^"]*)"', query_text): the groups of the matches from
\* position from on
RECURSIVE QuotedFrom(_, _)
RECURSIVE QuotedClose(_, _, _)
\* open the position of an opening quote (0: none); closes the positions of
\* the quotes behind it
QuotedClose(q, open, closes) ==
    IF open = 0 \/ closes = {} THEN {}
    ELSE {SubSeq(q, open + 1, SetMin(closes) - 1)}
             \cup QuotedFrom(q, SetMin(closes) + 1)

QuotedOpen(q, opens) == IF opens = {} THEN 0 ELSE SetMin(opens)

QuotedAfter(q, open) ==
    QuotedClose(q, open, {i \in (open + 1)..Len(q) : q[i] = "\""})

QuotedFrom(q, from) ==
    QuotedAfter(q, QuotedOpen(q, {i \in from..Len(q) : q[i] = "\""}))

\* the maximal runs of \w characters of t, as <<first, last>> pairs
RECURSIVE RunEnd(_, _)
RunEnd(t, i) ==
    IF i < Len(t) /\ IsWordChar(t[i + 1]) THEN RunEnd(t, i + 1) ELSE i

WordRuns(t) ==
    {<<i, RunEnd(t, i)>> :
        i \in {j \in 1..Len(t) :
                  IsWordChar(t[j]) /\ (j = 1 \/ ~IsWordChar(t[j - 1]))}}

\* re.findall(r'\b[A-Z][a-z]+\b', query_text): between two \b only a whole
\* run of \w characters can match
Capitalized(q) ==
    {SubSeq(q, r[1], r[2]) :
        r \in {w \in WordRuns(q) :
                  /\ q[w[1]] \in UpperSet
                  /\ w[2] > w[1]
                  /\ \A k \in (w[1] + 1)..w[2] : q[k] \in LowerSet}}

\* [keyword for keyword in counseling_keywords if keyword in query_lower]
KeywordsPresent(query_lower) ==
    {k \in CounselingKeywords : Contains(query_lower, k)}

\* re.findall(r'\b\w{4,}\b', query_lower) without the stop words
MeaningfulWords(query_lower) ==
    {SubSeq(query_lower, r[1], r[2]) :
        r \in {w \in WordRuns(query_lower) :
                  w[2] - w[1] + 1 >= MEANINGFUL_MIN}} \ StopWords

\* an extraction that also keeps the whole query text as an entity
ExtractQueryEntitiesWithQuery(query_text) ==
    {query_text}
    \cup QuotedFrom(query_text, 1) \cup Capitalized(query_text)
    \cup KeywordsPresent(Lower(query_text))
    \cup MeaningfulWords(Lower(query_text))

\* list(set(entities))
ExtractQueryEntities(query_text) ==
    QuotedFrom(query_text, 1) \cup Capitalized(query_text)
        \cup KeywordsPresent(Lower(query_text))
        \cup MeaningfulWords(Lower(query_text))

(***************************************************************************)
(* Inputs of the retrieval model.  A candidate is what the similarity      *)
(* search returns: id, content, metadata and distance (in hundredths).     *)
(* A metadata key that is absent in the source is absent from the record.  *)
(* A 'date' value is modelled by what the reranker does with it: whether   *)
(* strptime(..., '%Y-%m-%d') accepts it and, if so, the value of           *)
(* (datetime.now() - meeting_date).days.                                   *)
(***************************************************************************)
E_Ab == <<"A","b">>
E_c == <<"c">>
E_zz == <<"z","z">>

\* the queries of the model: the empty one, and one, two and three entities
Q_Empty == <<>>
Q_Ab == <<"A","b">>
Q_Ab_c == <<"A","b"," ","\"","c","\"">>
Q_Ab_c_zz == <<"A","b"," ","\"","c","\""," ","\"","z","z","\"">>
Queries == {Q_Empty, Q_Ab, Q_Ab_c, Q_Ab_c_zz}

\* the entity sets of the queries
QueryEntitySets == {ExtractQueryEntities(q) : q \in Queries}

CandidatePool == {
    [id |-> 1, content |-> <<"a","b"," ","c"," ","z","z">>, distance |-> 0,
     metadata |-> [meeting_id |-> "m1", date |-> [parses |-> TRUE, days_ago |-> 2],
                   title |-> <<"C","r","i","s","i","s"," ","c","a","l","l">>]],
    [id |-> 2, content |-> <<"A","B">>, distance |-> 20,
     metadata |-> [meeting_id |-> "m1", date |-> [parses |-> TRUE, days_ago |-> 20],
                   title |-> <<"M","e","e","t","i","n","g"," ","2">>]],
    [id |-> 3, content |-> <<"x">>, distance |-> 90,
     metadata |-> [meeting_id |-> "m1"]],
    [id |-> 4, content |-> <<"c">>, distance |-> 100,
     metadata |-> [meeting_id |-> "m2", date |-> [parses |-> FALSE]]],
    [id |-> 5, content |-> <<"x"," ","c">>, distance |-> 45,
     metadata |-> [date |-> [parses |-> TRUE, days_ago |-> 100]]],
    [id |-> 6, content |-> <<"z","z">>, distance |-> 150,
     metadata |-> [meeting_id |-> "unknown",
                   date |-> [parses |-> TRUE, days_ago |-> 60]]],
    [id |-> 7, content |-> <<"Z","z"," ","a","b"," ","c">>, distance |-> 90,
     metadata |-> [meeting_id |-> "m2",
                   date |-> [parses |-> TRUE, days_ago |-> 1]]] }

\* chunks that differ in their date only: the days between the date and now,
\* negative for a date after now
ProbeDays == {-100, -91, -90, -31, -30, -8, -7, -1, 0, 7, 8, 30, 31, 90, 91, 400}
DateProbes ==
    {[id |-> 20, content |-> <<"x">>, distance |-> 50,
      metadata |-> [meeting_id |-> "m3",
                    date |-> [parses |-> TRUE, days_ago |-> d]]] :
        d \in ProbeDays}

\* two chunks that no query entity matches, at the same distance and without
\* date or title, next to a nearer chunk
TiedChunks ==
    {[id |-> 30, content |-> <<"x">>, distance |-> 90,
      metadata |-> [meeting_id |-> "m1"]],
     [id |-> 31, content |-> <<"y">>, distance |-> 90,
      metadata |-> [meeting_id |-> "m2"]],
     [id |-> 32, content |-> <<"x","y">>, distance |-> 10,
      metadata |-> [meeting_id |-> "m2"]]}

DistinctLists(pool, n) ==
    {s \in [1..n -> pool] : \A i, j \in 1..n : i # j => s[i].id # s[j].id}

\* The candidate lists the similarity search may return: distinct chunks.
CandidateLists ==
    UNION {DistinctLists(CandidatePool, n) : n \in 0..MaxCands}
    \cup DistinctLists(DateProbes, 1)
    \cup DistinctLists(TiedChunks, 2) \cup DistinctLists(TiedChunks, 3)

RECURSIVE Factorial(_)
Factorial(n) == IF n <= 1 THEN 1 ELSE n * Factorial(n - 1)

\* Scores are integers over ScoreDen; KwDen makes matches / len(entities) exact.
KwDen == Factorial(SetMax({Cardinality(E) : E \in QueryEntitySets} \cup {1}))
ScoreDen == 1000 * KwDen

(***************************************************************************)
(* _rerank_chunks_with_keyword_matching (lines 279-327)                    *)
(***************************************************************************)
\* vector_similarity = 1 - chunk.get('distance', 1), in hundredths
VectorSimilarity(chunk) == 100 - chunk.distance

\* keyword_matches = sum(1 for entity in query_entities
\*                       if entity.lower() in content_lower)
KeywordMatches(chunk, entities) ==
    Cardinality({e \in entities : Contains(Lower(chunk.content), Lower(e))})

\* keyword_score = min(keyword_matches / max(len(query_entities), 1), 1.0),
\* as an integer over KwDen
KeywordScore(chunk, entities) ==
    Min2((KeywordMatches(chunk, entities) * KwDen)
             \div Max2(Cardinality(entities), 1),
         KwDen)

\* the if / elif / elif chain on days_ago, in hundredths
RecencyBoostAccumulating(date) ==
    IF ~date.parses THEN 0
    ELSE (IF date.days_ago <= DAYS_WEEK THEN BOOST_WEEK ELSE 0)
       + (IF date.days_ago <= DAYS_MONTH THEN BOOST_MONTH ELSE 0)
       + (IF date.days_ago <= DAYS_QUARTER THEN BOOST_QUARTER ELSE 0)

RecencyBoost(date) ==
    IF ~date.parses THEN 0          \* strptime raises: except: pass
    ELSE IF date.days_ago <= DAYS_WEEK THEN BOOST_WEEK
    ELSE IF date.days_ago <= DAYS_MONTH THEN BOOST_MONTH
    ELSE IF date.days_ago <= DAYS_QUARTER THEN BOOST_QUARTER
    ELSE 0

TitleBoost(title) ==
    IF \E i \in 1..Len(SalienceTerms) : Contains(Lower(title), SalienceTerms[i])
    THEN BOOST_TITLE ELSE 0

\* metadata_boost, in hundredths
MetadataBoost(chunk) ==
    (IF "date" \in DOMAIN chunk.metadata
     THEN RecencyBoost(chunk.metadata.date) ELSE 0)
  + (IF "title" \in DOMAIN chunk.metadata
     THEN TitleBoost(chunk.metadata.title) ELSE 0)

\* composite_score = 0.6 * vector_similarity + 0.3 * keyword_score
\*                 + 0.1 * metadata_boost, as an integer over ScoreDen
CompositeScore(chunk, entities) ==
      W_VECTOR * VectorSimilarity(chunk) * KwDen
    + W_KEYWORD * KeywordScore(chunk, entities) * 100
    + W_METADATA * MetadataBoost(chunk) * KwDen

\* the three keys the loop writes into the chunk dict
Scored(chunk, entities) ==
    [id |-> chunk.id, content |-> chunk.content, distance |-> chunk.distance,
     metadata |-> chunk.metadata,
     composite_score |-> CompositeScore(chunk, entities),
     keyword_matches |-> KeywordMatches(chunk, entities),
     vector_similarity |-> VectorSimilarity(chunk)]

\* the sort without reverse=True: ascending
InsertAsc(sorted, c) ==
    LET after == {i \in 1..Len(sorted) :
                      sorted[i].composite_score > c.composite_score}
        k == IF after = {} THEN Len(sorted) + 1 ELSE SetMin(after)
    IN  SubSeq(sorted, 1, k - 1) \o <<c>> \o SubSeq(sorted, k, Len(sorted))

\* a descending sort that puts a chunk in front of the chunks of equal score
InsertDescUnstable(sorted, c) ==
    LET after == {i \in 1..Len(sorted) :
                      sorted[i].composite_score <= c.composite_score}
        k == IF after = {} THEN Len(sorted) + 1 ELSE SetMin(after)
    IN  SubSeq(sorted, 1, k - 1) \o <<c>> \o SubSeq(sorted, k, Len(sorted))

\* list.sort(key=composite_score, reverse=True): stable, descending
InsertDesc(sorted, c) ==
    LET after == {i \in 1..Len(sorted) :
                      sorted[i].composite_score < c.composite_score}
        k == IF after = {} THEN Len(sorted) + 1 ELSE SetMin(after)
    IN  SubSeq(sorted, 1, k - 1) \o <<c>> \o SubSeq(sorted, k, Len(sorted))

RECURSIVE SortDescFrom(_, _)
SortDescFrom(sorted, rest) ==
    IF rest = <<>> THEN sorted
    ELSE SortDescFrom(InsertDesc(sorted, Head(rest)), Tail(rest))

RerankChunks(cands, entities) ==
    SortDescFrom(<<>>, [i \in 1..Len(cands) |-> Scored(cands[i], entities)])

(***************************************************************************)
(* _apply_diversity_filtering (lines 329-345)                              *)
(***************************************************************************)
\* chunk.get('metadata', {}).get('meeting_id', 'unknown')
MeetingOf(chunk) ==
    IF "meeting_id" \in DOMAIN chunk.metadata
    THEN chunk.metadata.meeting_id ELSE "unknown"

\* meeting_counts.get(m, 0) after the chunks of `kept`
MeetingCount(kept, m) ==
    Cardinality({i \in 1..Len(kept) : MeetingOf(kept[i]) = m})

RECURSIVE DiversityLoop(_, _, _)
DiversityLoop(filtered, rest, max_chunks_per_meeting) ==
    IF rest = <<>> THEN filtered
    ELSE LET chunk == Head(rest)
             current_count == MeetingCount(filtered, MeetingOf(chunk))
         IN  IF current_count < max_chunks_per_meeting
             THEN DiversityLoop(Append(filtered, chunk), Tail(rest),
                                max_chunks_per_meeting)
             ELSE DiversityLoop(filtered, Tail(rest), max_chunks_per_meeting)

\* the filter with one count for all meetings together
ApplyDiversityFilteringGlobalCount(cands, max_chunks_per_meeting) ==
    SubSeq(cands, 1, Min2(Len(cands), max_chunks_per_meeting))

\* the filter with the comparison current_count <= max_chunks_per_meeting
ApplyDiversityFilteringOffByOne(cands, max_chunks_per_meeting) ==
    DiversityLoop(<<>>, cands, max_chunks_per_meeting + 1)

ApplyDiversityFiltering(cands, max_chunks_per_meeting) ==
    IF cands = <<>> THEN cands
    ELSE DiversityLoop(<<>>, cands, max_chunks_per_meeting)

(***************************************************************************)
(* _apply_dynamic_threshold (lines 347-378)                                *)
(***************************************************************************)
ScoresOf(cands) == [i \in 1..Len(cands) |-> cands[i].composite_score]

MaxScore(cands) == SetMax({cands[i].composite_score : i \in 1..Len(cands)})

\* a threshold without the middle tier
ThresholdScaledTwoTier(cands) ==
    LET n == Len(cands)
        total == SumSeq(ScoresOf(cands))
        max_score == MaxScore(cands)
    IN  IF 10 * max_score > HIGH_MAX * ScoreDen
        THEN Max2(HIGH_FLOOR * ScoreDen * n, 10 * total)
        ELSE Max2(LOW_FLOOR * ScoreDen * n, LOW_MEAN * total)

\* threshold * 10 * len(chunks), so that mean_score = sum / len stays exact
ThresholdScaled(cands) ==
    LET n == Len(cands)
        total == SumSeq(ScoresOf(cands))
        max_score == MaxScore(cands)
    IN  IF 10 * max_score > HIGH_MAX * ScoreDen
        THEN Max2(HIGH_FLOOR * ScoreDen * n, 10 * total)
        ELSE IF 10 * max_score > MID_MAX * ScoreDen
        THEN Max2(MID_FLOOR * ScoreDen * n, MID_MEAN * total)
        ELSE Max2(LOW_FLOOR * ScoreDen * n, LOW_MEAN * total)

\* chunk['composite_score'] >= threshold
PassesThreshold(chunk, cands) ==
    chunk.composite_score * 10 * Len(cands) >= ThresholdScaled(cands)

\* a fallback that takes the last min_chunks candidates
ApplyDynamicThresholdTail(cands, min_chunks) ==
    IF cands = <<>> THEN cands
    ELSE LET Pass(c) == PassesThreshold(c, cands)
             filtered == SelectSeq(cands, Pass)
         IN  IF Len(filtered) < min_chunks /\ Len(cands) >= min_chunks
             THEN SubSeq(cands, Len(cands) - min_chunks + 1, Len(cands))
             ELSE filtered

\* _apply_dynamic_threshold (lines 347-378)
ApplyDynamicThreshold(cands, min_chunks) ==
    IF cands = <<>> THEN cands
    ELSE LET Pass(c) == PassesThreshold(c, cands)
             filtered == SelectSeq(cands, Pass)
         IN  IF Len(filtered) < min_chunks /\ Len(cands) >= min_chunks
             THEN SubSeq(cands, 1, min_chunks)
             ELSE filtered

(***************************************************************************)
(* retrieve_relevant_chunks (lines 380-464)                                *)
(***************************************************************************)
INITIAL_FACTOR == 3      \* top_k * 3
INITIAL_CAP == 20        \* min(..., 20)

\* initial_top_k = min(top_k * 3, 20)
\* initial_top_k without its cap
InitialTopKUncapped(k) == k * INITIAL_FACTOR
InitialTopK(k) == Min2(k * INITIAL_FACTOR, INITIAL_CAP)

\* a requested count whose threefold exceeds the cap
TopKProbes == {7}

\* except Exception as e: logger.error(...); return []   (lines 462-464)
ExceptHandlerReraise(e) == [rpc |-> "raised", final_chunks |-> <<>>]

ExceptHandler(e) == [rpc |-> "returned", final_chunks |-> <<>>]

RInit ==
    /\ rpc = "start"
    /\ query \in Queries
    /\ query_embedding = <<>>
    /\ failure = "none"
    /\ embed_calls = 0
    /\ search_calls = 0
    /\ n_results = 0
    /\ query_entities = {}
    /\ relevant_chunks = <<>>
    /\ reranked_chunks = <<>>
    /\ diverse_chunks = <<>>
    /\ final_chunks = <<>>
    /\ max_per_meeting \in 1..MaxPerArg
    /\ top_k \in (1..MaxTopK) \cup TopKProbes

\* query_embedding = self.embed_text(query) (line 388) with embed_text (lines
\* 121-128): encode returns a vector, returns an empty one, or raises, and
\* embed_text turns the exception into []
EmbedText ==
    /\ rpc = "start"
    /\ \E outcome \in {"vector", "empty", "raises"} :
          /\ query_embedding' = IF outcome = "vector" THEN <<1>> ELSE <<>>
          /\ failure' = IF outcome = "vector" THEN "none"
                        ELSE IF outcome = "empty" THEN "embed_empty"
                        ELSE "embed_raises"
    /\ embed_calls' = embed_calls + 1
    /\ rpc' = "embedded"
    /\ UNCHANGED <<query, search_calls, n_results, query_entities, relevant_chunks,
                   reranked_chunks, diverse_chunks, final_chunks,
                   max_per_meeting, top_k>>
    /\ UNCHANGED outside_r

\* if not query_embedding: return []
ReturnNoEmbedding ==
    /\ rpc = "embedded"
    /\ query_embedding = <<>>
    /\ rpc' = "returned"
    /\ final_chunks' = <<>>
    /\ UNCHANGED <<query_entities, relevant_chunks, reranked_chunks,
                   diverse_chunks, max_per_meeting, top_k>>
    /\ UNCHANGED qvars
    /\ UNCHANGED outside_r

\* query_entities = _extract_query_entities(query)
ExtractEntities ==
    /\ rpc = "embedded"
    /\ query_embedding # <<>>
    /\ query_entities' = ExtractQueryEntities(query)
    /\ rpc' = "entities"
    /\ UNCHANGED <<relevant_chunks, reranked_chunks, diverse_chunks,
                   final_chunks, max_per_meeting, top_k>>
    /\ UNCHANGED qvars
    /\ UNCHANGED outside_r

\* collection.query(...) / self.vector_db.query(...) returns at most
\* initial_top_k candidates (lines 405-434)
SimilaritySearch ==
    /\ rpc = "entities"
    /\ \E cs \in CandidateLists :
          /\ Len(cs) <= InitialTopK(top_k)
          /\ relevant_chunks' = cs
    /\ search_calls' = search_calls + 1
    /\ n_results' = InitialTopK(top_k)
    /\ rpc' = "candidates"
    /\ UNCHANGED <<query, query_embedding, failure, embed_calls,
                   query_entities, reranked_chunks, diverse_chunks,
                   final_chunks, max_per_meeting, top_k>>
    /\ UNCHANGED outside_r

\* the similarity search raises: the except clause of lines 462-464
SearchRaises ==
    /\ rpc = "entities"
    /\ search_calls' = search_calls + 1
    /\ n_results' = InitialTopK(top_k)
    /\ failure' = "search_raises"
    /\ rpc' = ExceptHandler(failure').rpc
    /\ final_chunks' = ExceptHandler(failure').final_chunks
    /\ UNCHANGED <<query, query_embedding, embed_calls, query_entities,
                   relevant_chunks, reranked_chunks, diverse_chunks,
                   max_per_meeting, top_k>>
    /\ UNCHANGED outside_r

\* if not relevant_chunks: return []
ReturnEmpty ==
    /\ rpc = "candidates"
    /\ relevant_chunks = <<>>
    /\ rpc' = "returned"
    /\ final_chunks' = <<>>
    /\ UNCHANGED <<query_entities, relevant_chunks, reranked_chunks,
                   diverse_chunks, max_per_meeting, top_k>>
    /\ UNCHANGED qvars
    /\ UNCHANGED outside_r

Rerank ==
    /\ rpc = "candidates"
    /\ relevant_chunks # <<>>
    /\ reranked_chunks' = RerankChunks(relevant_chunks, query_entities)
    /\ rpc' = "reranked"
    /\ UNCHANGED <<query_entities, relevant_chunks, diverse_chunks,
                   final_chunks, max_per_meeting, top_k>>
    /\ UNCHANGED qvars
    /\ UNCHANGED outside_r

DiversityFilter ==
    /\ rpc = "reranked"
    /\ diverse_chunks' = ApplyDiversityFiltering(reranked_chunks, max_per_meeting)
    /\ rpc' = "diverse"
    /\ UNCHANGED <<query_entities, relevant_chunks, reranked_chunks,
                   final_chunks, max_per_meeting, top_k>>
    /\ UNCHANGED qvars
    /\ UNCHANGED outside_r

DynamicThreshold ==
    /\ rpc = "diverse"
    /\ final_chunks' = ApplyDynamicThreshold(diverse_chunks, MIN_CHUNKS)
    /\ rpc' = "thresholded"
    /\ UNCHANGED <<query_entities, relevant_chunks, reranked_chunks,
                   diverse_chunks, max_per_meeting, top_k>>
    /\ UNCHANGED qvars
    /\ UNCHANGED outside_r

\* final_chunks = final_chunks[:top_k]; return final_chunks
LimitTopK ==
    /\ rpc = "thresholded"
    /\ final_chunks' = SubSeq(final_chunks, 1, Min2(top_k, Len(final_chunks)))
    /\ rpc' = "returned"
    /\ UNCHANGED <<query_entities, relevant_chunks, reranked_chunks,
                   diverse_chunks, max_per_meeting, top_k>>
    /\ UNCHANGED qvars
    /\ UNCHANGED outside_r

RNext ==
    \/ EmbedText \/ ReturnNoEmbedding \/ ExtractEntities
    \/ SimilaritySearch \/ SearchRaises
    \/ ReturnEmpty \/ Rerank \/ DiversityFilter \/ DynamicThreshold \/ LimitTopK

(***************************************************************************)
(* Specification of the retrieval pipeline.  The note pipeline is idle.    *)
(***************************************************************************)
EmptySoapContent ==
    [subjective |-> <<>>, objective |-> <<>>, assessment |-> <<>>,
     plan |-> <<>>, unstructured |-> <<>>, is_soap_format |-> FALSE]

NIdle ==
    /\ npc = "idle"
    /\ text = <<>>
    /\ arg_section_type = "none"
    /\ soap_content = EmptySoapContent
    /\ soap_chunks = <<>>
    /\ chunks = <<>>

\* a retrieval starts with the candidates fetched; no note is being processed
InitRank == RInit /\ NIdle /\ IIdle /\ LIdle /\ EIdle /\ AIdle

SpecRank == InitRank /\ [][RNext]_vars

AllMeetings ==
    {MeetingOf(c) : c \in CandidatePool \cup DateProbes \cup TiedChunks}

\* C1: after diversity filtering with max_chunks_per_meeting >= 1, no meeting
\* identifier (a missing one counting as 'unknown') occurs on more than
\* max_chunks_per_meeting of the kept candidates.
C1_DiversityBound ==
    rpc \in {"diverse", "thresholded", "returned"} =>
        \A m \in AllMeetings :
            MeetingCount(diverse_chunks, m) <= max_per_meeting

\* a meeting had more candidates than allowed and the filter cut it down
C1_Witness ==
    /\ rpc = "diverse"
    /\ \E m \in AllMeetings :
          /\ MeetingCount(reranked_chunks, m) > max_per_meeting
          /\ MeetingCount(diverse_chunks, m) = max_per_meeting

\* C2: the thresholder returns at least min(min_chunks, len(input)) candidates.
C2_ThresholdMinimum ==
    rpc = "thresholded" =>
        Len(final_chunks) >= Min2(MIN_CHUNKS, Len(diverse_chunks))

\* C3: the weights sum to 1.0; keyword_score is in [0,1], metadata_boost in
\* [0,0.25], and a candidate whose vector similarity is in [0,1] gets a
\* composite score in [0,1].
C3_ScoreRange ==
    /\ W_VECTOR + W_KEYWORD + W_METADATA = 10
    /\ rpc # "candidates" =>
          \A i \in 1..Len(reranked_chunks) :
              LET c == reranked_chunks[i]
              IN  /\ KeywordScore(c, query_entities) \in 0..KwDen
                  /\ MetadataBoost(c) \in 0..25
                  /\ c.vector_similarity \in 0..100 =>
                         c.composite_score \in 0..ScoreDen

\* a candidate with similarity 1, every entity matched and both boosts
C3_Witness ==
    /\ rpc = "reranked"
    /\ \E i \in 1..Len(reranked_chunks) :
          LET c == reranked_chunks[i]
          IN  /\ c.vector_similarity = 100
              /\ Cardinality(query_entities) = 3
              /\ KeywordScore(c, query_entities) = KwDen
              /\ MetadataBoost(c) = 25
              /\ c.composite_score > 0

\* the date part of metadata_boost of a candidate
DateBoost(c) ==
    IF "date" \in DOMAIN c.metadata THEN RecencyBoost(c.metadata.date) ELSE 0

\* the scenario's favourite: all three entities matched, dated within 2 days
IsFavourite(c) ==
    /\ c.keyword_matches = 3
    /\ "date" \in DOMAIN c.metadata
    /\ c.metadata.date.parses
    /\ c.metadata.date.days_ago \in (0 - 2)..2

\* position i holds the favourite and every other candidate matches fewer
\* than three entities and has no date boost
FavouriteAmongOthers(cs, i) ==
    /\ IsFavourite(cs[i])
    /\ \A j \in 1..Len(cs) :
          j # i => (cs[j].keyword_matches < 3 /\ DateBoost(cs[j]) = 0)

\* position i holds the strictly highest composite score
StrictlyHighest(cs, i) ==
    \A j \in 1..Len(cs) : j # i => cs[i].composite_score > cs[j].composite_score

FirstOfMeeting(cs, max) ==
    {i \in 1..Len(cs) :
        Cardinality({j \in 1..(i - 1) : MeetingOf(cs[j]) = MeetingOf(cs[i])})
            < max}

\* the k-th smallest element of the set of positions P
KthOf(P, k) == CHOOSE i \in P : Cardinality({j \in P : j <= i}) = k

\* C12: the diversity filter returns its input restricted, in the original
\* order, to the first min(n, max_chunks_per_meeting) candidates of each
\* meeting.
C12_DiversityOrder ==
    rpc \in {"diverse", "thresholded", "returned"} =>
        /\ Len(diverse_chunks)
               = Cardinality(FirstOfMeeting(reranked_chunks, max_per_meeting))
        /\ \A k \in 1..Len(diverse_chunks) :
               diverse_chunks[k]
                   = reranked_chunks[KthOf(FirstOfMeeting(reranked_chunks,
                                                          max_per_meeting), k)]

\* the second candidate of a meeting dropped, and the candidate of another
\* meeting behind it kept
C12_Witness ==
    /\ rpc = "diverse"
    /\ Len(reranked_chunks) = 3
    /\ max_per_meeting = 1
    /\ MeetingOf(reranked_chunks[1]) = MeetingOf(reranked_chunks[2])
    /\ MeetingOf(reranked_chunks[3]) # MeetingOf(reranked_chunks[1])
    /\ diverse_chunks = <<reranked_chunks[1], reranked_chunks[3]>>

\* C13: External call failure: when the embedding call fails (it returns an
\* empty vector or raises) or the similarity search raises, the retrieval
\* returns the empty list at its next step, no external call is made a second
\* time (and none after the failure), and no exception reaches the caller.
C13_ExternalCallFailure ==
    /\ rpc # "raised"
    /\ embed_calls <= 1
    /\ search_calls <= 1
    /\ failure # "none" =>
          /\ rpc \in {"embedded", "returned"}
          /\ rpc = "returned" => final_chunks = <<>>
          /\ relevant_chunks = <<>>
          /\ reranked_chunks = <<>>
    /\ failure \in {"embed_empty", "embed_raises"} => search_calls = 0

\* the similarity search has raised and the retrieval has returned
C13_Witness ==
    /\ rpc = "returned"
    /\ failure = "search_raises"
    /\ embed_calls = 1
    /\ search_calls = 1
    /\ final_chunks = <<>>

\* the position of the chunk with this id in a list of distinct chunks
PositionOf(cs, id) == CHOOSE k \in 1..Len(cs) : cs[k].id = id

\* the chunk a scored chunk was made from
SameChunk(scored, c) ==
    /\ scored.id = c.id
    /\ scored.content = c.content
    /\ scored.distance = c.distance
    /\ scored.metadata = c.metadata

\* C16: Composite Reranker ordering: the reranked list is a permutation of
\* the candidate list (nothing added, nothing dropped), its composite scores
\* never increase from front to back, and candidates of equal composite score
\* stand in the order they had in the candidate list.
C16_RerankOrdering ==
    rpc \in {"reranked", "diverse", "thresholded"} =>
        /\ Len(reranked_chunks) = Len(relevant_chunks)
        /\ \A k \in 1..Len(relevant_chunks) :
               \E j \in 1..Len(reranked_chunks) :
                   SameChunk(reranked_chunks[j], relevant_chunks[k])
        /\ \A j \in 1..Len(reranked_chunks) :
               \E k \in 1..Len(relevant_chunks) :
                   SameChunk(reranked_chunks[j], relevant_chunks[k])
        /\ \A i, j \in 1..Len(reranked_chunks) :
               i < j =>
                   /\ reranked_chunks[i].composite_score
                          >= reranked_chunks[j].composite_score
                   /\ reranked_chunks[i].composite_score
                          = reranked_chunks[j].composite_score
                      => PositionOf(relevant_chunks, reranked_chunks[i].id)
                             < PositionOf(relevant_chunks, reranked_chunks[j].id)

\* the sort has moved a candidate to the front and left two candidates of
\* equal score behind it in their original order
C16_Witness ==
    /\ rpc = "reranked"
    /\ Len(reranked_chunks) = 3
    /\ reranked_chunks[1].id = relevant_chunks[3].id
    /\ reranked_chunks[2].id = relevant_chunks[1].id
    /\ reranked_chunks[3].id = relevant_chunks[2].id
    /\ reranked_chunks[1].composite_score > reranked_chunks[2].composite_score
    /\ reranked_chunks[2].composite_score = reranked_chunks[3].composite_score

\* composite scores as exact fractions of ScoreDen: the highest score of a
\* list and the sum of its scores
TopScore(cs) ==
    CHOOSE m \in {cs[i].composite_score : i \in 1..Len(cs)} :
        \A i \in 1..Len(cs) : cs[i].composite_score <= m
TotalScore(cs) == SumSeq([i \in 1..Len(cs) |-> cs[i].composite_score])

\* the tier of a list: "high" when maxScore > 0.8, "mid" when
\* 0.6 < maxScore <= 0.8, "low" otherwise
TierOf(cs) ==
    IF 10 * TopScore(cs) > 8 * ScoreDen THEN "high"
    ELSE IF 10 * TopScore(cs) > 6 * ScoreDen THEN "mid"
    ELSE "low"

\* composite >= threshold for the threshold of the tier: max(0.6, mean),
\* max(0.4, 0.8 * mean) or max(0.3, 0.6 * mean), with mean = total / n
AtLeastThreshold(c, cs) ==
    LET n == Len(cs)
        s == c.composite_score
    IN  IF TierOf(cs) = "high"
        THEN 10 * s >= 6 * ScoreDen /\ s * n >= TotalScore(cs)
        ELSE IF TierOf(cs) = "mid"
        THEN 10 * s >= 4 * ScoreDen /\ 10 * s * n >= 8 * TotalScore(cs)
        ELSE 10 * s >= 3 * ScoreDen /\ 10 * s * n >= 6 * TotalScore(cs)

AtLeastThresholdIn(cs) ==
    SelectSeq(cs, LAMBDA c : AtLeastThreshold(c, cs))

\* C17: Threshold selection: for a non-empty list the threshold is
\* max(0.6, mean) when maxScore > 0.8, max(0.4, 0.8 * mean) when
\* 0.6 < maxScore <= 0.8 and max(0.3, 0.6 * mean) otherwise; when at least
\* min_chunks candidates have a composite score >= threshold, the thresholder
\* returns exactly those candidates, in input order.
C17_ThresholdSelection ==
    (/\ rpc = "thresholded"
     /\ diverse_chunks # <<>>
     /\ Len(AtLeastThresholdIn(diverse_chunks)) >= MIN_CHUNKS) =>
        final_chunks = AtLeastThresholdIn(diverse_chunks)

\* a list of the middle tier: two candidates reach the threshold and are
\* returned, a third one does not
C17_Witness ==
    /\ rpc = "thresholded"
    /\ Len(diverse_chunks) = 3
    /\ TierOf(diverse_chunks) = "mid"
    /\ Len(AtLeastThresholdIn(diverse_chunks)) = 2
    /\ Len(final_chunks) = 2

IdsIn(cs) == {cs[i].id : i \in 1..Len(cs)}

\* C18: Threshold fallback: in a retrieval, when fewer than min_chunks
\* candidates of the diversity-filtered list reach the threshold and the list
\* has at least min_chunks candidates, the thresholder returns min_chunks
\* candidates of the list, and no candidate it leaves out has a higher
\* composite score than one it returns.
C18_ThresholdFallback ==
    (/\ rpc = "thresholded"
     /\ Len(AtLeastThresholdIn(diverse_chunks)) < MIN_CHUNKS
     /\ Len(diverse_chunks) >= MIN_CHUNKS) =>
        /\ Len(final_chunks) = MIN_CHUNKS
        /\ Cardinality(IdsIn(final_chunks)) = MIN_CHUNKS
        /\ \A i \in 1..Len(final_chunks) :
               \E k \in 1..Len(diverse_chunks) :
                   final_chunks[i] = diverse_chunks[k]
        /\ \A k \in 1..Len(diverse_chunks) :
               diverse_chunks[k].id \notin IdsIn(final_chunks) =>
                   \A i \in 1..Len(final_chunks) :
                       final_chunks[i].composite_score
                           >= diverse_chunks[k].composite_score

\* no candidate of a list of three reaches the threshold; the two returned
\* score higher than the one left out
C18_Witness ==
    /\ rpc = "thresholded"
    /\ Len(diverse_chunks) = 3
    /\ AtLeastThresholdIn(diverse_chunks) = <<>>
    /\ Len(final_chunks) = MIN_CHUNKS
    /\ final_chunks[2].composite_score > diverse_chunks[3].composite_score

\* the days between a date and now, in either direction
DaysFromNow(date) ==
    IF date.days_ago < 0 THEN 0 - date.days_ago ELSE date.days_ago

\* the date boost by tiers of the distance to now, in hundredths
TierDateBoost(c) ==
    IF "date" \notin DOMAIN c.metadata THEN 0
    ELSE IF ~c.metadata.date.parses THEN 0
    ELSE IF DaysFromNow(c.metadata.date) <= 7 THEN 15
    ELSE IF DaysFromNow(c.metadata.date) <= 30 THEN 10
    ELSE IF DaysFromNow(c.metadata.date) <= 90 THEN 5
    ELSE 0

\* what the composite score holds besides the date boost
ScoreWithoutDate(c, entities) ==
      W_VECTOR * c.vector_similarity * KwDen
    + W_KEYWORD * KeywordScore(c, entities) * 100
    + W_METADATA * KwDen * (IF "title" \in DOMAIN c.metadata
                            THEN TitleBoost(c.metadata.title) ELSE 0)

\* C19: Recency boost tiers: the date part of the metadata boost of every
\* reranked candidate is 0.15 when its date is within 7 days of now, 0.10 when
\* it is more than 7 and within 30 days of now, 0.05 when it is more than 30
\* and within 90 days of now, and 0 otherwise: for a date more than 90 days
\* from now in either direction, for a date that does not parse and for a
\* chunk without a date.
C19_RecencyTiers ==
    rpc \in {"reranked", "diverse", "thresholded"} =>
        \A i \in 1..Len(reranked_chunks) :
            reranked_chunks[i].composite_score
                - ScoreWithoutDate(reranked_chunks[i], query_entities)
              = W_METADATA * KwDen * TierDateBoost(reranked_chunks[i])

\* C20: No keyword signal: the empty query gives the empty entity set, and
\* reranking with an empty entity set raises nothing and gives every candidate
\* keyword_matches = 0 and a keyword part of 0 in its composite score, so that
\* the candidates are ordered by 0.6 * vector similarity + 0.1 * metadata
\* boost alone.
C20_NoKeywordSignal ==
    /\ (rpc \notin {"start", "embedded"} /\ query = <<>> /\ failure = "none")
           => query_entities = {}
    /\ (rpc \in {"reranked", "diverse", "thresholded"} /\ query_entities = {})
           => /\ \A i \in 1..Len(reranked_chunks) :
                     /\ reranked_chunks[i].keyword_matches = 0
                     /\ reranked_chunks[i].composite_score
                            = KwDen * (W_VECTOR * VectorSimilarity(reranked_chunks[i])
                                       + W_METADATA * MetadataBoost(reranked_chunks[i]))
              /\ \A i, j \in 1..Len(reranked_chunks) :
                     i < j =>
                         W_VECTOR * VectorSimilarity(reranked_chunks[i])
                             + W_METADATA * MetadataBoost(reranked_chunks[i])
                         >= W_VECTOR * VectorSimilarity(reranked_chunks[j])
                             + W_METADATA * MetadataBoost(reranked_chunks[j])

\* the empty query has been embedded and its candidates reranked: the nearer
\* candidate has moved in front
C20_Witness ==
    /\ rpc = "reranked"
    /\ query = <<>>
    /\ query_entities = {}
    /\ Len(reranked_chunks) >= 2
    /\ reranked_chunks[1].id # relevant_chunks[1].id
    /\ reranked_chunks[1].keyword_matches = 0

\* the number of distinct meetings among chunks
DistinctMeetings(cs) == Cardinality({MeetingOf(cs[i]) : i \in 1..Len(cs)})

NonIncreasing(cs) ==
    \A i \in 1..(Len(cs) - 1) :
        cs[i].composite_score >= cs[i + 1].composite_score

\* C25: Final result size and order: for a requested count k the similarity
\* search is asked for min(3k, 20) candidates, and the list returned by a
\* retrieval, whose diversity filter keeps 2 chunks per meeting, is sorted
\* by non-increasing composite score and has at most k and at most twice
\* the number of distinct meetings among the candidates entries, so at most
\* 2 when all candidates are of one meeting, as under a meeting filter.
C25_ResultSizeAndOrder ==
    /\ search_calls >= 1 =>
           n_results = (IF 3 * top_k <= 20 THEN 3 * top_k ELSE 20)
    /\ (rpc = "returned" /\ max_per_meeting = 2) =>
           /\ NonIncreasing(final_chunks)
           /\ Len(final_chunks) <= top_k
           /\ Len(final_chunks) <= 2 * DistinctMeetings(relevant_chunks)

\* 7 chunks were requested, the search was asked for 20 and found three
\* of one meeting, and two of them are returned
C25_Witness ==
    /\ rpc = "returned"
    /\ max_per_meeting = 2
    /\ top_k = 7
    /\ n_results = 20
    /\ Len(relevant_chunks) = 3
    /\ DistinctMeetings(relevant_chunks) = 1
    /\ Len(final_chunks) = 2

(***************************************************************************)
(* NOTE PIPELINE: soap_parser.py                                           *)
(*                                                                         *)
(* Regular expressions are translated to positions in the text: a          *)
(* position p in 1..Len(t)+1 is the index of the next character to read.   *)
(* All patterns are compiled with (?i), re.MULTILINE and re.DOTALL.        *)
(***************************************************************************)
SECTION_MAX == 800       \* len(content) <= 800: one chunk per section
SUBCHUNK_MAX == 600      \* len(current_chunk) + len(sentence) <= 600
MIN_CONTENT == 10        \* len(content) > 10
SUMMARY_LIMIT == 20      \* len(words) <= 20
SUMMARY_WORDS == 15      \* words[:15]
HEADER_MIN == 2          \* explicit_headers >= 2
KEYWORD_MIN == 2         \* keyword_score >= 2

SectionNames == <<"subjective", "objective", "assessment", "plan">>

\* ^ under re.MULTILINE
AtLineStart(t, p) == p = 1 \/ (p - 1 <= Len(t) /\ t[p - 1] = "\n")
\* $ under re.MULTILINE
AtLineEnd(t, p) == p = Len(t) + 1 \/ (p <= Len(t) /\ t[p] = "\n")
\* \b before a word character at p
WordStart(t, p) == p = 1 \/ ~IsWordChar(t[p - 1])
\* the literal w at p, ignoring case ((?i)); w is lower case
LitAt(t, p, w) ==
    /\ p >= 1
    /\ p + Len(w) - 1 <= Len(t)
    /\ \A k \in 1..Len(w) : LowerChar(t[p + k - 1]) = w[k]
\* \s* read greedily from p
SkipSpace(t, p) == FirstNonSpace(t, p)
\* [:|-]
IsSep(c) == c \in {":", "|", "-"}
\* [:|-]? read greedily from p
SkipSep(t, p) == IF p <= Len(t) /\ IsSep(t[p]) THEN p + 1 ELSE p
\* \s*[:|-]?\s* read greedily from p
AfterHeader(t, p) == SkipSpace(t, SkipSep(t, SkipSpace(t, p)))
\* one of the literals ws at p: the position after it, or 0
AfterAnyLit(t, p, ws) ==
    LET hit == {i \in 1..Len(ws) : LitAt(t, p, ws[i])}
    IN  IF hit = {} THEN 0 ELSE p + Len(ws[SetMin(hit)])
\* \s+ read greedily from p: the position after it, or 0
AfterSpace1(t, p) ==
    IF p >= 1 /\ p <= Len(t) /\ IsSpace(t[p]) THEN SkipSpace(t, p) ELSE 0

\* self.soap_patterns (lines 53-78).  head names the part of a pattern before
\* its capture group, tail the capture group with its lookahead:
\*   line            ^WORD\s*[:|-]?\s*
\*   loose           (?:^|\n)\s*WORD\s*[:|-]?\s*
\*   client_reports  client\s+(?:reports?|states?|says?)\s+
\*   observed        (?:observed?|during\s+session)\s*
\*   diagnosis       (?:diagnosis|impression|clinical\s+opinion)\s*[:|-]?\s*
\*   intervention    (?:intervention|treatment|homework|next\s+steps?)\s*[:|-]?\s*
\*   lazy_line       ( .*? )(?=^(?:STOPS)[:|-]|$)     STOPS a letter class or words
\*   lazy_loose      ( .*? )(?=\n\s*(?:STOPS)|$)      (observed? looks for observe)
\*   rest            ( .* )
SoapPatterns ==
    [subjective |-> <<
        [head |-> "line", word |-> <<"s">>, tail |-> "lazy_line", stops |-> <<<<"o">>, <<"a">>>>],
        [head |-> "line", word |-> <<"s","u","b","j","e","c","t","i","v","e">>, tail |-> "lazy_line", stops |-> <<<<"o","b","j","e","c","t","i","v","e">>, <<"a","s","s","e","s","s","m","e","n","t">>>>],
        [head |-> "loose", word |-> <<"s","u","b","j","e","c","t","i","v","e">>, tail |-> "lazy_loose", stops |-> <<<<"o","b","j","e","c","t","i","v","e">>, <<"a","s","s","e","s","s","m","e","n","t">>>>],
        [head |-> "client_reports", word |-> <<>>, tail |-> "lazy_loose", stops |-> <<<<"o","b","s","e","r","v","e">>, <<"a","s","s","e","s","s","m","e","n","t">>, <<"p","l","a","n">>>>]>>,
     objective |-> <<
        [head |-> "line", word |-> <<"o">>, tail |-> "lazy_line", stops |-> <<<<"a">>, <<"p">>>>],
        [head |-> "line", word |-> <<"o","b","j","e","c","t","i","v","e">>, tail |-> "lazy_line", stops |-> <<<<"a","s","s","e","s","s","m","e","n","t">>, <<"p","l","a","n">>>>],
        [head |-> "loose", word |-> <<"o","b","j","e","c","t","i","v","e">>, tail |-> "lazy_loose", stops |-> <<<<"a","s","s","e","s","s","m","e","n","t">>, <<"p","l","a","n">>>>],
        [head |-> "observed", word |-> <<>>, tail |-> "lazy_loose", stops |-> <<<<"a","s","s","e","s","s","m","e","n","t">>, <<"p","l","a","n">>>>]>>,
     assessment |-> <<
        [head |-> "line", word |-> <<"a">>, tail |-> "lazy_line", stops |-> <<<<"p">>>>],
        [head |-> "line", word |-> <<"a","s","s","e","s","s","m","e","n","t">>, tail |-> "lazy_line", stops |-> <<<<"p","l","a","n">>>>],
        [head |-> "loose", word |-> <<"a","s","s","e","s","s","m","e","n","t">>, tail |-> "lazy_loose", stops |-> <<<<"p","l","a","n">>>>],
        [head |-> "diagnosis", word |-> <<>>, tail |-> "lazy_loose", stops |-> <<<<"p","l","a","n">>>>]>>,
     plan |-> <<
        [head |-> "line", word |-> <<"p">>, tail |-> "rest", stops |-> <<>>],
        [head |-> "line", word |-> <<"p","l","a","n">>, tail |-> "rest", stops |-> <<>>],
        [head |-> "loose", word |-> <<"p","l","a","n">>, tail |-> "rest", stops |-> <<>>],
        [head |-> "intervention", word |-> <<>>, tail |-> "rest", stops |-> <<>>]>>]

W_client == <<"c","l","i","e","n","t">>
W_report == <<"r","e","p","o","r","t">>
W_state == <<"s","t","a","t","e">>
W_say == <<"s","a","y">>
W_s == <<"s">>
W_observe == <<"o","b","s","e","r","v","e">>
W_d == <<"d">>
W_during == <<"d","u","r","i","n","g">>
W_session == <<"s","e","s","s","i","o","n">>
W_diagnosis == <<"d","i","a","g","n","o","s","i","s">>
W_impression == <<"i","m","p","r","e","s","s","i","o","n">>
W_clinical == <<"c","l","i","n","i","c","a","l">>
W_opinion == <<"o","p","i","n","i","o","n">>
W_intervention == <<"i","n","t","e","r","v","e","n","t","i","o","n">>
W_treatment == <<"t","r","e","a","t","m","e","n","t">>
W_homework == <<"h","o","m","e","w","o","r","k">>
W_next == <<"n","e","x","t">>
W_step == <<"s","t","e","p">>

\* an optional literal w read greedily from p (p = 0 stays 0)
SkipLit(t, p, w) == IF p # 0 /\ LitAt(t, p, w) THEN p + Len(w) ELSE p

\* client\s+(?:reports?|states?|says?)\s+
HeadClientReports(t, p) ==
    IF ~LitAt(t, p, W_client) THEN 0
    ELSE LET q == AfterSpace1(t, p + Len(W_client))
             r == IF q = 0 THEN 0
                  ELSE AfterAnyLit(t, q, <<W_report, W_state, W_say>>)
         IN  IF r = 0 THEN 0 ELSE AfterSpace1(t, SkipLit(t, r, W_s))

\* (?:observed?|during\s+session)\s*
HeadObserved(t, p) ==
    IF LitAt(t, p, W_observe)
    THEN SkipSpace(t, SkipLit(t, p + Len(W_observe), W_d))
    ELSE IF LitAt(t, p, W_during)
    THEN LET q == AfterSpace1(t, p + Len(W_during))
         IN  IF q # 0 /\ LitAt(t, q, W_session)
             THEN SkipSpace(t, q + Len(W_session)) ELSE 0
    ELSE 0

\* (?:diagnosis|impression|clinical\s+opinion)\s*[:|-]?\s*
HeadDiagnosis(t, p) ==
    LET r == AfterAnyLit(t, p, <<W_diagnosis, W_impression>>)
    IN  IF r # 0 THEN AfterHeader(t, r)
        ELSE IF LitAt(t, p, W_clinical)
        THEN LET q == AfterSpace1(t, p + Len(W_clinical))
             IN  IF q # 0 /\ LitAt(t, q, W_opinion)
                 THEN AfterHeader(t, q + Len(W_opinion)) ELSE 0
        ELSE 0

\* (?:intervention|treatment|homework|next\s+steps?)\s*[:|-]?\s*
HeadIntervention(t, p) ==
    LET r == AfterAnyLit(t, p, <<W_intervention, W_treatment, W_homework>>)
    IN  IF r # 0 THEN AfterHeader(t, r)
        ELSE IF LitAt(t, p, W_next)
        THEN LET q == AfterSpace1(t, p + Len(W_next))
             IN  IF q # 0 /\ LitAt(t, q, W_step)
                 THEN AfterHeader(t, SkipLit(t, q + Len(W_step), W_s)) ELSE 0
        ELSE 0

\* The head of pattern pat matched from p: the position where the capture
\* group starts, or 0 when the head does not match at p.
HeadAt(pat, t, p) ==
    CASE pat.head = "line" ->
            IF AtLineStart(t, p) /\ LitAt(t, p, pat.word)
            THEN AfterHeader(t, p + Len(pat.word)) ELSE 0
      [] pat.head = "loose" ->
            IF (AtLineStart(t, p) \/ (p <= Len(t) /\ t[p] = "\n"))
               /\ LitAt(t, SkipSpace(t, p), pat.word)
            THEN AfterHeader(t, SkipSpace(t, p) + Len(pat.word)) ELSE 0
      [] pat.head = "client_reports" -> HeadClientReports(t, p)
      [] pat.head = "observed" -> HeadObserved(t, p)
      [] pat.head = "diagnosis" -> HeadDiagnosis(t, p)
      [] pat.head = "intervention" -> HeadIntervention(t, p)

\* The lookahead of pattern pat at position j.
LookAt(pat, t, j) ==
    CASE pat.tail = "lazy_line" ->
            \/ /\ AtLineStart(t, j)
               /\ \E i \in 1..Len(pat.stops) :
                     /\ LitAt(t, j, pat.stops[i])
                     /\ j + Len(pat.stops[i]) <= Len(t)
                     /\ IsSep(t[j + Len(pat.stops[i])])
            \/ AtLineEnd(t, j)
      [] pat.tail = "lazy_loose" ->
            \/ /\ j <= Len(t)
               /\ t[j] = "\n"
               /\ \E i \in 1..Len(pat.stops) :
                     LitAt(t, SkipSpace(t, j + 1), pat.stops[i])
            \/ AtLineEnd(t, j)
      [] pat.tail = "rest" -> j = Len(t) + 1

\* re.findall(pattern, text, re.MULTILINE | re.DOTALL): matches[0], the group
\* of the leftmost match, or no match
FindFirst(pat, t) ==
    LET starts == {p \in 1..(Len(t) + 1) : HeadAt(pat, t, p) # 0}
    IN  IF starts = {} THEN [found |-> FALSE, group |-> <<>>]
        ELSE LET c == HeadAt(pat, t, SetMin(starts))
                 e == SetMin({j \in c..(Len(t) + 1) : LookAt(pat, t, j)})
             IN  [found |-> TRUE, group |-> SubSeq(t, c, e - 1)]

(***************************************************************************)
(* detect_soap_format (lines 88-111)                                       *)
(***************************************************************************)
\* the eight patterns \bWORD\s*[:|-]
HeaderWords == <<<<"s">>, <<"s","u","b","j","e","c","t","i","v","e">>, <<"o">>, <<"o","b","j","e","c","t","i","v","e">>, <<"a">>, <<"a","s","s","e","s","s","m","e","n","t">>, <<"p">>, <<"p","l","a","n">>>>

\* re.search(r'(?i)\bWORD\s*[:|-]', text)
HeaderSearch(t, w) ==
    \E p \in 1..Len(t) :
        /\ WordStart(t, p)
        /\ LitAt(t, p, w)
        /\ LET q == SkipSpace(t, p + Len(w))
           IN  q <= Len(t) /\ IsSep(t[q])

\* self.soap_indicators (lines 81-86)
SoapIndicators == <<
    <<<<"c","l","i","e","n","t"," ","r","e","p","o","r","t","s">>, <<"c","l","i","e","n","t"," ","s","t","a","t","e","s">>, <<"p","a","t","i","e","n","t"," ","s","a","y","s">>, <<"r","e","p","o","r","t","s"," ","f","e","e","l","i","n","g">>, <<"d","e","s","c","r","i","b","e","d">>, <<"e","x","p","r","e","s","s","e","d">>>>,
    <<<<"o","b","s","e","r","v","e","d">>, <<"d","u","r","i","n","g"," ","s","e","s","s","i","o","n">>, <<"a","p","p","e","a","r","e","d">>, <<"d","e","m","o","n","s","t","r","a","t","e","d">>, <<"e","x","h","i","b","i","t","e","d">>, <<"n","o","t","e","d">>>>,
    <<<<"d","i","a","g","n","o","s","i","s">>, <<"a","s","s","e","s","s","m","e","n","t">>, <<"i","m","p","r","e","s","s","i","o","n">>, <<"c","l","i","n","i","c","a","l"," ","o","p","i","n","i","o","n">>, <<"m","e","e","t","s"," ","c","r","i","t","e","r","i","a">>, <<"s","y","m","p","t","o","m","s"," ","i","n","d","i","c","a","t","e">>>>,
    <<<<"h","o","m","e","w","o","r","k">>, <<"i","n","t","e","r","v","e","n","t","i","o","n">>, <<"t","r","e","a","t","m","e","n","t"," ","p","l","a","n">>, <<"n","e","x","t"," ","s","e","s","s","i","o","n">>, <<"g","o","a","l","s">>, <<"r","e","c","o","m","m","e","n","d","e","d">>, <<"f","o","l","l","o","w","-","u","p">>>>>>

RECURSIVE CountTrue(_)
CountTrue(bs) ==
    IF bs = <<>> THEN 0
    ELSE (IF Head(bs) THEN 1 ELSE 0) + CountTrue(Tail(bs))

ExplicitHeaders(t) ==
    CountTrue([i \in 1..Len(HeaderWords) |-> HeaderSearch(t, HeaderWords[i])])

\* the loop over self.soap_indicators, on text.lower()
KeywordCategoryScore(t) ==
    LET text_lower == Lower(t)
    IN  CountTrue([c \in 1..Len(SoapIndicators) |->
            \E k \in 1..Len(SoapIndicators[c]) :
                Contains(text_lower, SoapIndicators[c][k])])

\* the detector without its keyword fallback
DetectSoapFormatHeadersOnly(t) == ExplicitHeaders(t) >= HEADER_MIN

DetectSoapFormat(t) ==
    IF ExplicitHeaders(t) >= HEADER_MIN THEN TRUE
    ELSE KeywordCategoryScore(t) >= KEYWORD_MIN

(***************************************************************************)
(* parse_soap_note (lines 113-152)                                         *)
(***************************************************************************)
\* content = matches[0].strip(); if content and len(content) > 10
KeepContent(content) == content # <<>> /\ Len(content) > MIN_CONTENT

\* the inner loop over one section's patterns, from pattern k on:
\* the content stored in sections_found, or "" when no pattern gives one
RECURSIVE SectionFrom(_, _, _)
RECURSIVE SectionPick(_, _, _, _)
\* one iteration, m the result of re.findall for pattern k: store and break,
\* or go on with the next pattern
SectionPick(pats, k, t, m) ==
    IF m.found /\ KeepContent(Strip(m.group))
    THEN Strip(m.group)
    ELSE SectionFrom(pats, k + 1, t)

SectionFrom(pats, k, t) ==
    IF k > Len(pats) THEN <<>>
    ELSE SectionPick(pats, k, t, FindFirst(pats[k], t))

\* sections_found after the outer loop (absent keys are "")
SectionsFound(t) ==
    [s \in DOMAIN SoapPatterns |-> SectionFrom(SoapPatterns[s], 1, t)]

\* SOAPContent(...) built from sections_found f (lines 138-151)
SoapContentFrom(t, f) ==
    [subjective |-> f.subjective, objective |-> f.objective,
     assessment |-> f.assessment, plan |-> f.plan,
     unstructured |->
         IF \A i \in 1..Len(SectionNames) : f[SectionNames[i]] = <<>>
         THEN t ELSE <<>>,
     is_soap_format |-> TRUE]

ParseSoapNote(t) ==
    IF ~DetectSoapFormat(t)
    THEN [EmptySoapContent EXCEPT !.unstructured = t]
    ELSE SoapContentFrom(t, SectionsFound(t))

(***************************************************************************)
(* _create_section_summary (lines 255-262)                                 *)
(***************************************************************************)
\* content.split(): the words, as <<first, last>> index pairs in order
WordStarts(t) ==
    {i \in 1..Len(t) : ~IsSpace(t[i]) /\ (i = 1 \/ IsSpace(t[i - 1]))}

WordEnd(t, i) ==
    LET sp == {j \in i..Len(t) : IsSpace(t[j])}
    IN  IF sp = {} THEN Len(t) ELSE SetMin(sp) - 1

\* ' '.join of the first k words starting at or after position from
RECURSIVE JoinWords(_, _, _)
JoinWords(t, from, k) ==
    LET starts == {i \in WordStarts(t) : i >= from}
    IN  IF k = 0 \/ starts = {} THEN <<>>
        ELSE LET i == SetMin(starts)
                 e == WordEnd(t, i)
                 more == JoinWords(t, e + 1, k - 1)
             IN  SubSeq(t, i, e) \o (IF more = <<>> THEN <<>> ELSE <<" ">> \o more)

\* a summary that is the whole content whatever its length
CreateSectionSummaryVerbatim(content) == content

\* _create_section_summary (lines 255-262)
CreateSectionSummary(content) ==
    IF Cardinality(WordStarts(content)) <= SUMMARY_LIMIT THEN content
    ELSE JoinWords(content, 1, SUMMARY_WORDS) \o <<".", ".", ".">>

(***************************************************************************)
(* _chunk_section_content (lines 191-253)                                  *)
(***************************************************************************)
IsTerminator(c) == c \in {".", "!", "?"}

\* re.split(r'(?<=[.!?])\s+', content): the separators are the whitespace
\* runs that directly follow a terminator; the result is the list of the
\* pieces between them, as <<first, last>> index pairs (last = first - 1 for
\* an empty piece)
SeparatorStarts(t) ==
    {i \in 2..Len(t) : IsSpace(t[i]) /\ IsTerminator(t[i - 1])}

RECURSIVE SplitFrom(_, _)
SplitFrom(t, from) ==
    LET seps == {i \in SeparatorStarts(t) : i >= from}
    IN  IF seps = {} THEN <<SubSeq(t, from, Len(t))>>
        ELSE LET i == SetMin(seps)
             IN  <<SubSeq(t, from, i - 1)>> \o SplitFrom(t, SkipSpace(t, i))

SplitSentences(content) == SplitFrom(content, 1)

SubChunk(current_chunk, content, section_type, base_metadata) ==
    [content |-> Strip(current_chunk),
     section_type |-> section_type,
     section_content_full |-> content,
     metadata |-> DictMerge(base_metadata,
                  [soap_section |-> section_type,
                   is_soap_format |-> TRUE,
                   section_summary |-> CreateSectionSummary(current_chunk),
                   section_length |-> Len(current_chunk),
                   is_partial_section |-> TRUE])]

\* the loop with the sentence that overflows a sub-chunk left out
RECURSIVE SentenceLoopDropping(_, _, _, _, _, _)
SentenceLoopDropping(sentences, sub_chunks, current_chunk, content, section_type, md) ==
    IF sentences = <<>>
    THEN IF Strip(current_chunk) # <<>>
         THEN Append(sub_chunks, SubChunk(current_chunk, content, section_type, md))
         ELSE sub_chunks
    ELSE IF Len(current_chunk) + Len(Head(sentences)) <= SUBCHUNK_MAX
         THEN SentenceLoopDropping(Tail(sentences), sub_chunks,
                                   current_chunk \o Head(sentences) \o <<" ">>,
                                   content, section_type, md)
         ELSE SentenceLoopDropping(Tail(sentences),
                                   IF current_chunk # <<>>
                                   THEN Append(sub_chunks,
                                            SubChunk(current_chunk, content,
                                                     section_type, md))
                                   ELSE sub_chunks,
                                   <<>>, content, section_type, md)

\* the for loop over sentences and the "remaining content" step after it
RECURSIVE SentenceLoop(_, _, _, _, _, _)
SentenceLoop(sentences, sub_chunks, current_chunk, content, section_type, md) ==
    IF sentences = <<>>
    THEN IF Strip(current_chunk) # <<>>
         THEN Append(sub_chunks, SubChunk(current_chunk, content, section_type, md))
         ELSE sub_chunks
    ELSE LET sentence == Head(sentences)
         IN  IF Len(current_chunk) + Len(sentence) <= SUBCHUNK_MAX
             THEN SentenceLoop(Tail(sentences), sub_chunks,
                               current_chunk \o sentence \o <<" ">>,
                               content, section_type, md)
             ELSE SentenceLoop(Tail(sentences),
                               IF current_chunk # <<>>
                               THEN Append(sub_chunks,
                                        SubChunk(current_chunk, content,
                                                 section_type, md))
                               ELSE sub_chunks,
                               sentence \o <<" ">>, content, section_type, md)

\* the chunker with the sub-chunk cap used as the whole-section limit
ChunkSectionContentSplitEarly(content, section_type, base_metadata) ==
    IF Len(content) <= SUBCHUNK_MAX
    THEN << [content |-> content,
             section_type |-> section_type,
             section_content_full |-> content,
             metadata |-> DictMerge(base_metadata,
                          [soap_section |-> section_type,
                           is_soap_format |-> TRUE,
                           section_summary |-> CreateSectionSummary(content),
                           section_length |-> Len(content)])] >>
    ELSE SentenceLoop(SplitSentences(content), <<>>, <<>>, content,
                      section_type, base_metadata)

ChunkSectionContent(content, section_type, base_metadata) ==
    IF Len(content) <= SECTION_MAX
    THEN << [content |-> content,
             section_type |-> section_type,
             section_content_full |-> content,
             metadata |-> DictMerge(base_metadata,
                          [soap_section |-> section_type,
                           is_soap_format |-> TRUE,
                           section_summary |-> CreateSectionSummary(content),
                           section_length |-> Len(content)])] >>
    ELSE SentenceLoop(SplitSentences(content), <<>>, <<>>, content,
                      section_type, base_metadata)

(***************************************************************************)
(* create_soap_chunks (lines 154-189)                                      *)
(***************************************************************************)
RECURSIVE SectionChunksFrom(_, _, _)
SectionChunksFrom(sc, k, base_metadata) ==
    IF k > Len(SectionNames) THEN <<>>
    ELSE LET content == sc[SectionNames[k]]
         IN  (IF content # <<>> /\ Strip(content) # <<>>
              THEN ChunkSectionContent(content, SectionNames[k], base_metadata)
              ELSE <<>>)
             \o SectionChunksFrom(sc, k + 1, base_metadata)

CreateSoapChunks(sc, base_metadata) ==
    IF ~sc.is_soap_format
    THEN << [content |-> sc.unstructured,
             section_type |-> "unstructured",
             section_content_full |-> sc.unstructured,
             metadata |-> DictMerge(base_metadata,
                          [soap_section |-> "unstructured",
                           is_soap_format |-> FALSE,
                           section_summary |->
                               CreateSectionSummary(sc.unstructured)])] >>
    ELSE SectionChunksFrom(sc, 1, base_metadata)

(***************************************************************************)
(* NOTE PIPELINE: document_loader.py                                       *)
(***************************************************************************)
CHUNK_SIZE == 1000       \* DocumentLoader(chunk_size=1000)
CHUNK_OVERLAP == 200     \* DocumentLoader(chunk_overlap=200)

\* The MeetingNote whose content is t.  The note's identity is fixed here:
\* the chunking entry point reads it only to fill chunk ids and metadata.
MeetingNote(t) ==
    [client_id |-> "eli", meeting_id |-> "003", date |-> "2025-08-06",
     title |-> "Meeting 003 - eli", content |-> t,
     file_path |-> "data/eli/raw/meeting_003.txt",
     metadata |-> [original_filename |-> "meeting_003.txt"]]

\* self.text_splitter.split_text (RecursiveCharacterTextSplitter, a library
\* configured at lines 56-61).  A text that fits in chunk_size comes back as
\* one stripped chunk, a blank text as no chunk.  A longer text is cut into
\* several chunks of at most chunk_size; which cut points the library picks
\* depends on its separators, and the model takes the character-level cut
\* (windows of chunk_size that advance by chunk_size - chunk_overlap).
RECURSIVE Windows(_, _)
Windows(t, from) ==
    IF from + CHUNK_SIZE - 1 >= Len(t) THEN <<Strip(SubSeq(t, from, Len(t)))>>
    ELSE <<Strip(SubSeq(t, from, from + CHUNK_SIZE - 1))>>
         \o Windows(t, from + CHUNK_SIZE - CHUNK_OVERLAP)

SplitText(t) ==
    IF Strip(t) = <<>> THEN <<>>
    ELSE IF Len(t) <= CHUNK_SIZE THEN <<Strip(t)>>
    ELSE SelectSeq(Windows(t, 1), LAMBDA c : c # <<>>)

\* _create_soap_aware_chunks (lines 207-239): base_metadata
SoapBaseMetadata(note) ==
    [source_file |-> note.file_path, date |-> note.date, title |-> note.title,
     client_id |-> note.client_id, meeting_id |-> note.meeting_id,
     original_filename |-> note.metadata.original_filename,
     document_type |-> "soap_note"]

\* _create_soap_aware_chunks: SOAPChunks to DocumentChunks (index i from 0)
ToDocumentChunks(note, scs) ==
    [k \in 1..Len(scs) |->
        [chunk_id |-> <<note.client_id, note.meeting_id, "soap",
                        scs[k].section_type, k - 1>>,
         client_id |-> note.client_id,
         meeting_id |-> note.meeting_id,
         content |-> scs[k].content,
         chunk_index |-> k - 1,
         metadata |-> DictMerge(scs[k].metadata,
                          [total_chunks |-> Len(scs),
                           chunk_type |-> "soap_section"])]]

\* _create_traditional_chunks (lines 241-267)
CreateTraditionalChunks(note) ==
    LET parts == SplitText(note.content)
    IN  [k \in 1..Len(parts) |->
            [chunk_id |-> <<note.client_id, note.meeting_id, "chunk", k - 1>>,
             client_id |-> note.client_id,
             meeting_id |-> note.meeting_id,
             content |-> parts[k],
             chunk_index |-> k - 1,
             metadata |-> [source_file |-> note.file_path,
                           date |-> note.date, title |-> note.title,
                           total_chunks |-> Len(parts),
                           client_id |-> note.client_id,
                           meeting_id |-> note.meeting_id,
                           original_filename |->
                               note.metadata.original_filename,
                           document_type |-> "unstructured_note",
                           chunk_type |-> "text_split"]]]

(***************************************************************************)
(* Inputs of the note model.                                               *)
(***************************************************************************)
F_S == <<"S",":"," ">>
F_O == <<"O",":"," ">>
F_P == <<"P",":"," ">>
F_NL == <<"\n">>
F_Reports == <<"C","l","i","e","n","t"," ","r","e","p","o","r","t","s"," ","a","n","x","i","e","t","y",".">>
F_Appeared == <<"A","p","p","e","a","r","e","d"," ","t","e","n","s","e",".">>
F_Weekly == <<"W","e","e","k","l","y"," ","s","e","s","s","i","o","n","s",".">>
F_Ok == <<" ","o","k">>
NoteFrags == {F_S, F_O, F_P, F_NL, F_Reports, F_Appeared, F_Weekly, F_Ok}

\* the notes made of at most MaxFrags fragments
FragNotes ==
    UNION {{Flatten(fs) : fs \in [1..n -> NoteFrags]} : n \in 0..MaxFrags}

\* the two notes of the specification's scenarios, and the first with each
\* header on a line of its own
N_OneLine == <<"S",":"," ","C","l","i","e","n","t"," ","r","e","p","o","r","t","s"," ","a","n","x","i","e","t","y","."," ","O",":"," ","A","p","p","e","a","r","e","d"," ","t","e","n","s","e","."," ","A",":"," ","M","e","e","t","s"," ","P","T","S","D"," ","c","r","i","t","e","r","i","a","."," ","P",":"," ","W","e","e","k","l","y"," ","s","e","s","s","i","o","n","s",".">>
N_Casual == <<"J","u","s","t"," ","a"," ","c","a","s","u","a","l"," ","n","o","t","e"," ","w","i","t","h"," ","n","o"," ","s","t","r","u","c","t","u","r","e"," ","a","t"," ","a","l","l",".">>
N_Lines == <<"S",":"," ","C","l","i","e","n","t"," ","r","e","p","o","r","t","s"," ","a","n","x","i","e","t","y",".","\n","O",":"," ","A","p","p","e","a","r","e","d"," ","t","e","n","s","e",".","\n","A",":"," ","M","e","e","t","s"," ","P","T","S","D"," ","c","r","i","t","e","r","i","a",".","\n","P",":"," ","W","e","e","k","l","y"," ","s","e","s","s","i","o","n","s",".">>
ScenarioNotes == {N_OneLine, N_Casual, N_Lines}

\* long texts: sentences of the lengths SentenceLens, the k-th filled with
\* the k-th letter, each closed by term ("" for no terminator), joined by sep
SentenceLens == {280, 601}
SentenceSeps == {<<" ">>, <<"\n", "\n">>}
SentenceTerms == {<<".">>, <<"?">>, <<>>}

RECURSIVE JoinSentencesFrom(_, _, _, _)
JoinSentencesFrom(lens, k, sep, term) ==
    IF k > Len(lens) THEN <<>>
    ELSE Rep(LowerChars[k], lens[k] - Len(term)) \o term
         \o (IF k = Len(lens) THEN <<>>
             ELSE sep \o JoinSentencesFrom(lens, k + 1, sep, term))

JoinSentences(lens, sep, term) == JoinSentencesFrom(lens, 1, sep, term)

LongTexts ==
    {JoinSentences(lens, sep, term) :
        lens \in UNION {[1..n -> SentenceLens] : n \in 1..MaxSentences},
        sep \in SentenceSeps, term \in SentenceTerms}

\* a long text as the subjective section of a note with two headers
HeaderedLongNotes == {F_S \o t \o F_NL \o F_O \o F_Ok : t \in LongTexts}

\* texts of n one-letter words
WordCounts == {15, 16, 20, 21, 30}
WordyTexts ==
    {[i \in 1..(2 * n - 1) |-> IF i % 2 = 1 THEN "w" ELSE " "] : n \in WordCounts}

NoteTexts ==
    FragNotes \cup ScenarioNotes \cup LongTexts \cup HeaderedLongNotes
    \cup WordyTexts

(***************************************************************************)
(* The chunking entry point, chunk_document (lines 189-205), in two steps, *)
(* and _chunk_section_content applied to a text as a section of its own.   *)
(***************************************************************************)
NInit ==
    /\ npc = "loaded"
    /\ text \in NoteTexts
    /\ arg_section_type = "none"
    /\ soap_content = EmptySoapContent
    /\ soap_chunks = <<>>
    /\ chunks = <<>>

RIdle ==
    /\ rpc = "idle"
    /\ query = <<>>
    /\ query_embedding = <<>>
    /\ failure = "none"
    /\ embed_calls = 0
    /\ search_calls = 0
    /\ n_results = 0
    /\ query_entities = {}
    /\ relevant_chunks = <<>>
    /\ reranked_chunks = <<>>
    /\ diverse_chunks = <<>>
    /\ final_chunks = <<>>
    /\ max_per_meeting = 1
    /\ top_k = 1

\* soap_content = self.soap_parser.parse_soap_note(meeting_note.content)
ParseNote ==
    /\ npc = "loaded"
    /\ soap_content' = ParseSoapNote(text)
    /\ npc' = "parsed"
    /\ UNCHANGED <<text, arg_section_type, soap_chunks, chunks>>
    /\ UNCHANGED outside_n

\* if soap_content.is_soap_format: return self._create_soap_aware_chunks(...)
ChunkSoapAware ==
    /\ npc = "parsed"
    /\ soap_content.is_soap_format
    /\ LET note == MeetingNote(text)
           scs == CreateSoapChunks(soap_content, SoapBaseMetadata(note))
       IN  /\ soap_chunks' = scs
           /\ chunks' = ToDocumentChunks(note, scs)
    /\ npc' = "chunked"
    /\ UNCHANGED <<text, arg_section_type, soap_content>>
    /\ UNCHANGED outside_n

\* else: return self._create_traditional_chunks(meeting_note)
ChunkTraditional ==
    /\ npc = "parsed"
    /\ ~soap_content.is_soap_format
    /\ chunks' = CreateTraditionalChunks(MeetingNote(text))
    /\ npc' = "chunked"
    /\ UNCHANGED <<text, arg_section_type, soap_content, soap_chunks>>
    /\ UNCHANGED outside_n

\* _chunk_section_content(content, section_type, base_metadata)
ChunkSection ==
    /\ npc = "loaded"
    /\ \E k \in 1..Len(SectionNames) :
          /\ arg_section_type' = SectionNames[k]
          /\ soap_chunks' = ChunkSectionContent(text, SectionNames[k],
                                SoapBaseMetadata(MeetingNote(text)))
    /\ npc' = "section_chunked"
    /\ UNCHANGED <<text, soap_content, chunks>>
    /\ UNCHANGED outside_n

NNext == ParseNote \/ ChunkSoapAware \/ ChunkTraditional \/ ChunkSection

\* a note has been loaded; no retrieval is running
Init == NInit /\ RIdle /\ IIdle /\ LIdle /\ EIdle /\ AIdle

Next == NNext

Spec == Init /\ [][Next]_vars

(***************************************************************************)
(* Properties of the note pipeline, checked under Spec.                    *)
(***************************************************************************)
\* the header patterns of detect_soap_format that match somewhere in t
MatchedHeaders(t) ==
    {i \in 1..Len(HeaderWords) : HeaderSearch(t, HeaderWords[i])}

\* the section categories with one of their indicators in t, in any case
KeywordCategories(t) ==
    {c \in 1..Len(SoapIndicators) :
        \E k \in 1..Len(SoapIndicators[c]) :
            Contains(Lower(t), SoapIndicators[c][k])}

\* a chunk's is_partial_section flag; a chunk without the key is not partial
IsPartialSection(c) ==
    "is_partial_section" \in DOMAIN c.metadata /\ c.metadata.is_partial_section

\* s without its whitespace
NoSpace(s) == SelectSeq(s, LAMBDA c : ~IsSpace(c))

\* the contents of the chunks cs of section section_type, in order
ContentsOf(cs, section_type) ==
    [k \in 1..Len(SelectSeq(cs, LAMBDA c : c.section_type = section_type)) |->
        SelectSeq(cs, LAMBDA c : c.section_type = section_type)[k].content]

Parsed == npc \in {"parsed", "chunked"}

\* C4: the parsed note is flagged structured exactly when at least two header
\* patterns match or at least two keyword categories are found in the text.
C4_DetectorRule ==
    Parsed =>
        (soap_content.is_soap_format <=>
            (Cardinality(MatchedHeaders(text)) >= HEADER_MIN
             \/ Cardinality(KeywordCategories(text)) >= KEYWORD_MIN))

\* a note without two headers is structured by its keywords alone
C4_Witness ==
    /\ npc = "parsed"
    /\ Cardinality(MatchedHeaders(text)) < HEADER_MIN
    /\ Cardinality(KeywordCategories(text)) >= KEYWORD_MIN
    /\ soap_content.is_soap_format

\* C5: a parse result flagged structured has a non-empty span among
\* subjective, objective, assessment and plan; a note whose unstructured span
\* had to take the full text (no pattern gave a span) is flagged unstructured.
C5_SectionSet ==
    Parsed =>
        /\ soap_content.is_soap_format =>
               \E i \in 1..Len(SectionNames) :
                   soap_content[SectionNames[i]] # <<>>
        /\ (\A i \in 1..Len(SectionNames) :
                soap_content[SectionNames[i]] = <<>>) =>
               (~soap_content.is_soap_format /\ soap_content.unstructured = text)

\* C6: the one-line four-part note is parsed as structured with its four
\* spans non-empty and is chunked into four chunks, one per section.
C6_OneLineScenario ==
    (text = N_OneLine /\ npc = "chunked") =>
        /\ soap_content.is_soap_format
        /\ \A i \in 1..Len(SectionNames) : soap_content[SectionNames[i]] # <<>>
        /\ Len(soap_chunks) = Len(SectionNames)
        /\ Len(chunks) = Len(SectionNames)
        /\ \A i \in 1..Len(SectionNames) :
               Len(ContentsOf(soap_chunks, SectionNames[i])) = 1

\* C7: a note the detector classifies as unstructured leaves the chunking
\* entry point as one chunk holding the whole text, tagged with the section
\* 'unstructured' and with the structured flag false.
C7_UnstructuredSingleChunk ==
    (npc = "chunked" /\ ~DetectSoapFormat(text)) =>
        /\ Len(chunks) = 1
        /\ chunks[1].content = text
        /\ "soap_section" \in DOMAIN chunks[1].metadata
        /\ chunks[1].metadata.soap_section = "unstructured"
        /\ "is_soap_format" \in DOMAIN chunks[1].metadata
        /\ chunks[1].metadata.is_soap_format = FALSE

\* C8: a non-empty section of at most 800 characters gives exactly one chunk,
\* holding the whole section, tagged with the section's name and not partial;
\* both for _chunk_section_content called on a section and for each section
\* of a parsed note in create_soap_chunks.
C8_ShortSection ==
    /\ (npc = "section_chunked" /\ text # <<>> /\ Len(text) <= SECTION_MAX) =>
           /\ Len(soap_chunks) = 1
           /\ soap_chunks[1].content = text
           /\ soap_chunks[1].section_type = arg_section_type
           /\ soap_chunks[1].metadata.soap_section = arg_section_type
           /\ ~IsPartialSection(soap_chunks[1])
    /\ (npc = "chunked" /\ soap_content.is_soap_format) =>
           \A i \in 1..Len(SectionNames) :
               (/\ soap_content[SectionNames[i]] # <<>>
                /\ Len(soap_content[SectionNames[i]]) <= SECTION_MAX) =>
                   /\ ContentsOf(soap_chunks, SectionNames[i])
                          = <<soap_content[SectionNames[i]]>>
                   /\ \A k \in 1..Len(soap_chunks) :
                          soap_chunks[k].section_type = SectionNames[i] =>
                              /\ soap_chunks[k].metadata.soap_section
                                     = SectionNames[i]
                              /\ ~IsPartialSection(soap_chunks[k])

\* a section longer than the sub-chunk cap, but not above 800, kept whole
C8_Witness ==
    /\ npc = "section_chunked"
    /\ Len(text) > SUBCHUNK_MAX
    /\ Len(text) <= SECTION_MAX
    /\ Len(soap_chunks) = 1
    /\ soap_chunks[1].content = text

\* C9: every sub-chunk of a section longer than 800 characters has between 1
\* and 600 characters and is flagged partial.
C9_SubChunkCap ==
    (npc = "section_chunked" /\ Len(text) > SECTION_MAX) =>
        \A k \in 1..Len(soap_chunks) :
            /\ Len(soap_chunks[k].content) >= 1
            /\ Len(soap_chunks[k].content) <= SUBCHUNK_MAX
            /\ IsPartialSection(soap_chunks[k])

\* C10: the contents of the sub-chunks of a section longer than 800
\* characters, concatenated in order, are the section up to whitespace; both
\* for _chunk_section_content called on a section and for each long section
\* of a parsed note.
C10_RoundTrip ==
    /\ (npc = "section_chunked" /\ Len(text) > SECTION_MAX) =>
           NoSpace(Flatten(ContentsOf(soap_chunks, arg_section_type)))
               = NoSpace(text)
    /\ (npc = "chunked" /\ soap_content.is_soap_format) =>
           \A i \in 1..Len(SectionNames) :
               Len(soap_content[SectionNames[i]]) > SECTION_MAX =>
                   NoSpace(Flatten(ContentsOf(soap_chunks, SectionNames[i])))
                       = NoSpace(soap_content[SectionNames[i]])

\* a long section cut into several sub-chunks whose plain concatenation
\* differs from the section in its whitespace
C10_Witness ==
    /\ npc = "section_chunked"
    /\ Len(text) > SECTION_MAX
    /\ Len(soap_chunks) >= 2
    /\ Flatten(ContentsOf(soap_chunks, arg_section_type)) # text

\* len(t.split())
WordCount(t) == Cardinality(WordStarts(t))

\* C21: Section summary length, as stated: the summary in the metadata of
\* every chunk has at most 15 words.
C21_SummaryAtMost15 ==
    npc \in {"section_chunked", "chunked"} =>
        \A k \in 1..Len(soap_chunks) :
            WordCount(soap_chunks[k].metadata.section_summary) <= 15

\* C21: Section summary length, as the code has it: the summary of a chunk
\* of at most 20 words is the chunk's content (followed by a space when the
\* chunk is a sub-chunk), so it has at most 20 words; the summary of a chunk
\* of more than 20 words has exactly 15 words.
C21_SummaryAtMost20 ==
    npc \in {"section_chunked", "chunked"} =>
        \A k \in 1..Len(soap_chunks) :
            LET c == soap_chunks[k]
            IN  /\ WordCount(c.metadata.section_summary) <= 20
                /\ WordCount(c.content) <= 20 =>
                       Strip(c.metadata.section_summary) = Strip(c.content)
                /\ WordCount(c.content) > 20 =>
                       WordCount(c.metadata.section_summary) = 15

\* a section of 16 to 20 words and its summary of more than 15 words
C21_Witness ==
    /\ npc = "section_chunked"
    /\ Len(soap_chunks) = 1
    /\ WordCount(soap_chunks[1].content) \in 16..20
    /\ WordCount(soap_chunks[1].metadata.section_summary) > 15

\* C26: No note is lost in chunking: for every note whose text is not
\* empty, chunk_document returns at least one chunk, and every chunk it
\* returns has a content that is not empty.
C26_NoNoteLost ==
    (npc = "chunked" /\ Strip(text) # <<>>) =>
        /\ chunks # <<>>
        /\ \A k \in 1..Len(chunks) : chunks[k].content # <<>>

(***************************************************************************)
(* INGESTION: rag_engine.py ingest_client_documents with                   *)
(* document_loader.py process_client_documents.                            *)
(*                                                                         *)
(* A file is its name, already split at "_" with the extension removed     *)
(* (_extract_client_info_from_filename), and its content.  The hash of a   *)
(* file is modelled by its content, and the cache by its entries: a cache  *)
(* key with the hash stored under it.  A stored record is a chunk id with  *)
(* its content.                                                            *)
(***************************************************************************)
CLIENT_ID == "c1"

\* load_single_document returns a MeetingNote: the stripped content is not
\* empty and the file name gives a meeting id (len(parts) >= 3)
Loadable(f) == Strip(f.content) # <<>> /\ Len(f.name) >= 3

\* load_single_document(file_path, client_id=client_id) (lines 143-186)
LoadSingleDocument(f, client_id) ==
    [client_id |-> client_id, meeting_id |-> f.name[2], date |-> f.name[3],
     title |-> <<"Meeting", f.name[2], client_id>>,
     content |-> Strip(f.content),
     file_path |-> f.name,
     metadata |-> [original_filename |-> f.name]]

ChunkDocumentFrom(note, sc) ==
    IF sc.is_soap_format
    THEN ToDocumentChunks(note, CreateSoapChunks(sc, SoapBaseMetadata(note)))
    ELSE CreateTraditionalChunks(note)

\* chunk_document (lines 189-205)
ChunkDocument(note) == ChunkDocumentFrom(note, ParseSoapNote(note.content))

\* the entry self.metadata_cache[cache_key] of a processed file (lines 303-308)
CacheEntry(f) == [cache_key |-> f.name, file_hash |-> f.content]

\* process_client_documents: the files that are not skipped (lines 283-294)
Processed(files, cache, force) ==
    SelectSeq(files, LAMBDA f : (force \/ CacheEntry(f) \notin cache) /\ Loadable(f))

\* process_client_documents (lines 269-320): the chunks of the processed
\* files in order, and the cache with their entries
ProcessClientDocuments(files, cache, force, client_id) ==
    LET fs == Processed(files, cache, force)
    IN  [chunks |-> Flatten([k \in 1..Len(fs) |->
                        ChunkDocument(LoadSingleDocument(fs[k], client_id))]),
         cache |-> {e \in cache :
                       \A k \in 1..Len(fs) : e.cache_key # fs[k].name}
                   \cup {CacheEntry(fs[k]) : k \in 1..Len(fs)}]

\* the loop of lines 150-161: a chunk whose embedding is empty is skipped
RECURSIVE EmbeddedFrom(_, _, _)
EmbeddedFrom(cs, ok, k) ==
    IF k > Len(cs) THEN <<>>
    ELSE (IF ok[k] THEN <<[id |-> cs[k].chunk_id, content |-> cs[k].content]>>
          ELSE <<>>) \o EmbeddedFrom(cs, ok, k + 1)

IdsOf(recs) == {recs[k].id : k \in 1..Len(recs)}
HasDuplicateIds(recs) ==
    \E i, j \in 1..Len(recs) : i < j /\ recs[i].id = recs[j].id

\* collection.delete(ids=ids_to_delete)
ChromaDelete(coll, ids) == SelectSeq(coll, LAMBDA r : r.id \notin ids)

\* collection.add(...) of the chromadb library: an empty batch and a batch
\* that repeats an id are rejected with an exception, which line 230 catches
ChromaAddRaises(batch) == batch = <<>> \/ HasDuplicateIds(batch)
ChromaAdd(coll, batch) == IF ChromaAddRaises(batch) THEN coll ELSE coll \o batch

\* the CHROMA_AVAILABLE branch (lines 175-212)
IngestChroma(coll, recs, force) ==
    LET existing_ids == IdsOf(coll)
        deleted == IF force /\ existing_ids # {}
                   THEN ChromaDelete(coll, IdsOf(recs) \cap existing_ids)
                   ELSE coll
        new_data == SelectSeq(recs, LAMBDA r : r.id \notin existing_ids)
    IN  IF force THEN ChromaAdd(deleted, recs)
        ELSE IF new_data = <<>> THEN coll
        ELSE ChromaAdd(coll, new_data)

\* InMemoryVectorDB.add (lines 564-578)
VectorDbAdd(data, rec) ==
    SelectSeq(data, LAMBDA c : c.id # rec.id) \o <<rec>>

\* the in-memory branch (lines 213-222)
RECURSIVE IngestMemory(_, _, _)
IngestMemory(data, recs, k) ==
    IF k > Len(recs) THEN data
    ELSE IngestMemory(VectorDbAdd(data, recs[k]), recs, k + 1)

(***************************************************************************)
(* Inputs of the ingestion model.                                          *)
(***************************************************************************)
File_Soap == [name |-> <<"c1", "m1", "d1">>, content |-> N_Lines]
File_Casual == [name |-> <<"c1", "m2", "d1">>, content |-> N_Casual]
\* a second note of meeting m2
File_Again == [name |-> <<"c1", "m2", "d2">>, content |-> F_Ok]
\* a file name without a meeting id
File_Unnamed == [name |-> <<"notes">>, content |-> N_Casual]
FilePool == {File_Soap, File_Casual, File_Again, File_Unnamed}

\* the texts a note is rewritten to
EditedContents == {N_Lines, N_Casual, F_Ok}

FileLists ==
    {fs \in UNION {[1..n -> FilePool] : n \in 1..MaxFiles} :
        \A i, j \in 1..Len(fs) : i # j => fs[i] # fs[j]}

IInit ==
    /\ ipc = "idle"
    /\ client_files \in FileLists
    /\ chroma_available \in BOOLEAN
    /\ force_reprocess = FALSE
    /\ metadata_cache = {}
    /\ all_chunks = <<>>
    /\ store = <<>>
    /\ ingestions = 0
    /\ after_first = <<>>
    /\ edits = 0

\* between two ingestions the counselor rewrites a note: the upload route of
\* main.py (lines 227-248) writes the file again under the same name.  A
\* rewrite before the first ingestion is another initial directory.
EditFile ==
    /\ ipc = "idle"
    /\ ingestions >= 1
    /\ edits < MaxEdits
    /\ \E k \in 1..Len(client_files), t \in EditedContents :
          /\ t # client_files[k].content
          /\ client_files' = [client_files EXCEPT ![k].content = t]
    /\ edits' = edits + 1
    /\ UNCHANGED <<ipc, chroma_available, force_reprocess, metadata_cache,
                   all_chunks, store, ingestions, after_first>>
    /\ UNCHANGED outside_i

\* chunks = self.document_loader.process_client_documents(client_id,
\*     force_reprocess)
ProcessDocuments ==
    /\ ipc = "idle"
    /\ ingestions < MaxIngests
    /\ \E force \in BOOLEAN :
          /\ force_reprocess' = force
          /\ all_chunks' = ProcessClientDocuments(client_files, metadata_cache,
                               force, CLIENT_ID).chunks
          /\ metadata_cache' = ProcessClientDocuments(client_files,
                                   metadata_cache, force, CLIENT_ID).cache
    /\ ipc' = "processed"
    /\ UNCHANGED <<client_files, chroma_available, store, ingestions,
                   after_first, edits>>
    /\ UNCHANGED outside_i

\* if not chunks: return False
ReturnNoChunks ==
    /\ ipc = "processed"
    /\ all_chunks = <<>>
    /\ ipc' = "idle"
    /\ ingestions' = ingestions + 1
    /\ after_first' = IF ingestions = 0 THEN store ELSE after_first
    /\ UNCHANGED <<client_files, chroma_available, force_reprocess,
                   metadata_cache, all_chunks, store, edits>>
    /\ UNCHANGED outside_i

\* the embedding loop, then the collection of the client is updated
StoreChroma ==
    /\ ipc = "processed"
    /\ all_chunks # <<>>
    /\ chroma_available
    /\ \E ok \in [1..Len(all_chunks) -> BOOLEAN] :
          store' = IngestChroma(store, EmbeddedFrom(all_chunks, ok, 1),
                                force_reprocess)
    /\ ipc' = "idle"
    /\ ingestions' = ingestions + 1
    /\ after_first' = IF ingestions = 0 THEN store' ELSE after_first
    /\ UNCHANGED <<client_files, chroma_available, force_reprocess,
                   metadata_cache, all_chunks, edits>>
    /\ UNCHANGED outside_i

\* the embedding loop, then the in-memory store is updated
StoreMemory ==
    /\ ipc = "processed"
    /\ all_chunks # <<>>
    /\ ~chroma_available
    /\ \E ok \in [1..Len(all_chunks) -> BOOLEAN] :
          store' = IngestMemory(store, EmbeddedFrom(all_chunks, ok, 1), 1)
    /\ ipc' = "idle"
    /\ ingestions' = ingestions + 1
    /\ after_first' = IF ingestions = 0 THEN store' ELSE after_first
    /\ UNCHANGED <<client_files, chroma_available, force_reprocess,
                   metadata_cache, all_chunks, edits>>
    /\ UNCHANGED outside_i

INext ==
    \/ EditFile
    \/ ProcessDocuments \/ ReturnNoChunks \/ StoreChroma \/ StoreMemory

InitIngest == IInit /\ RIdle /\ NIdle /\ LIdle /\ EIdle /\ AIdle

SpecIngest == InitIngest /\ [][INext]_vars

\* the records of a store, without their order
Records(recs) == {recs[k] : k \in 1..Len(recs)}

\* C14: Idempotent re-ingestion: once a first ingestion of the client's files
\* has finished, every later ingestion of the same files, with or without
\* force_reprocess, leaves the store with the same chunk ids and the same
\* contents as the first one left it, and no id is stored twice.
C14_IdempotentReingestion ==
    (ipc = "idle" /\ ingestions >= 1 /\ edits = 0) =>
        /\ Records(store) = Records(after_first)
        /\ ~HasDuplicateIds(store)

\* the records an ingestion stores for a file when every embedding succeeds
RecordsOfFile(f) ==
    LET cs == ChunkDocument(LoadSingleDocument(f, CLIENT_ID))
    IN  EmbeddedFrom(cs, [k \in 1..Len(cs) |-> TRUE], 1)

\* the records of the notes as they are now
CurrentRecords ==
    UNION {Records(RecordsOfFile(client_files[k])) :
              k \in {j \in 1..Len(client_files) : Loadable(client_files[j])}}

\* every note was processed with the content it has now
AllFilesCurrent ==
    \A k \in 1..Len(client_files) :
        Loadable(client_files[k]) =>
            CacheEntry(client_files[k]) \in metadata_cache

\* C24: Chunks are superseded on reprocessing: after the content of a note
\* file has changed and the client was ingested again, with or without
\* force_reprocess, the store holds no chunk of the old content: every
\* stored record is a chunk, id and text, of a note as it is now.
C24_SupersededOnReprocessing ==
    (ipc = "idle" /\ edits >= 1 /\ AllFilesCurrent) =>
        Records(store) \subseteq CurrentRecords

\* C27: Cache and store agree: after any sequence of ingestions in which
\* embedding calls may fail, every file that the cache records as processed
\* with its present content has all of its chunks in the store.
C27_CacheStoreAgree ==
    ipc = "idle" =>
        \A k \in 1..Len(client_files) :
            CacheEntry(client_files[k]) \in metadata_cache =>
                IdsOf(RecordsOfFile(client_files[k])) \subseteq IdsOf(store)

(***************************************************************************)
(* LICENSE: license_manager.py                                             *)
(***************************************************************************)
ANONYMOUS_TRIAL_DAYS == 7     \* self.ANONYMOUS_TRIAL_DAYS = 7
EXTENDED_TRIAL_DAYS == 30     \* self.EXTENDED_TRIAL_DAYS = 30

\* _migrate_to_hybrid_license (lines 443-465)
MigrateToHybridLicense(d) ==
    [d EXCEPT !.license_type = "anonymous_trial", !.hybrid = TRUE,
              !.user_account = FALSE]

\* get_trial_status on a license in the hybrid format (lines 176-227)
TrialPhase(d) ==
    IF d.trial_start < ANONYMOUS_TRIAL_DAYS
    THEN [phase |-> "anonymous_trial", valid |-> TRUE]
    ELSE IF d.trial_start < EXTENDED_TRIAL_DAYS /\ ~d.user_account
    THEN [phase |-> "extension_prompt", valid |-> TRUE]
    ELSE IF d.trial_start < EXTENDED_TRIAL_DAYS /\ d.user_account
    THEN [phase |-> "extended_trial", valid |-> TRUE]
    ELSE [phase |-> "expired", valid |-> FALSE]

\* get_trial_status: the license data it leaves (an old license is migrated)
LicenseAfterStatus(d) ==
    IF d.license_type = "pro" \/ d.hybrid THEN d
    ELSE MigrateToHybridLicense(d)

\* get_trial_status (lines 156-235): the status it returns
GetTrialStatus(d) ==
    IF d.license_type = "pro" THEN [phase |-> "pro", valid |-> TRUE]
    ELSE TrialPhase(LicenseAfterStatus(d))

\* is_trial_valid
IsTrialValid(d) == GetTrialStatus(d).valid

(***************************************************************************)
(* Inputs of the license model.                                            *)
(***************************************************************************)
LicenseTypes == {"anonymous_trial", "trial", "pro"}
TrialStartDays == {0, 6, 7, 29, 30}

LicenseInputs ==
    {[NewTrialLicense EXCEPT !.license_type = t, !.trial_start = s,
                             !.hybrid = h, !.user_account = a] :
        t \in LicenseTypes, s \in TrialStartDays, h \in BOOLEAN,
        a \in BOOLEAN}

LInit ==
    /\ license_data \in LicenseInputs
    /\ checked = "none"
    /\ allowed = FALSE

\* record_client_creation
RecordClientCreation ==
    /\ license_data.clients_created < MaxUsage
    /\ license_data' = [license_data EXCEPT
                            !.clients_created = license_data.clients_created + 1]
    /\ UNCHANGED <<checked, allowed>>
    /\ UNCHANGED outside_l

\* record_document_upload
RecordDocumentUpload ==
    /\ license_data.documents_uploaded < MaxUsage
    /\ license_data' = [license_data EXCEPT
                            !.documents_uploaded =
                                license_data.documents_uploaded + 1]
    /\ UNCHANGED <<checked, allowed>>
    /\ UNCHANGED outside_l

\* record_query
RecordQuery ==
    /\ license_data.total_queries < MaxUsage
    /\ license_data' = [license_data EXCEPT
                            !.total_queries = license_data.total_queries + 1]
    /\ UNCHANGED <<checked, allowed>>
    /\ UNCHANGED outside_l

\* test_unlimited_trial, lines 64-67: license_data['trial_end'] is set to one
\* day before now and the license is saved
ExpireTrial ==
    /\ license_data.trial_end = <<>>
    /\ license_data' = [license_data EXCEPT !.trial_end = <<-1>>]
    /\ checked' = "none"
    /\ UNCHANGED allowed
    /\ UNCHANGED outside_l

\* can_create_client
CanCreateClient ==
    /\ checked' = "can_create_client"
    /\ allowed' = IsTrialValid(license_data)
    /\ license_data' = LicenseAfterStatus(license_data)
    /\ UNCHANGED outside_l

\* can_upload_document
CanUploadDocument ==
    /\ checked' = "can_upload_document"
    /\ allowed' = IsTrialValid(license_data)
    /\ license_data' = LicenseAfterStatus(license_data)
    /\ UNCHANGED outside_l

\* can_make_query
CanMakeQuery ==
    /\ checked' = "can_make_query"
    /\ allowed' = IsTrialValid(license_data)
    /\ license_data' = LicenseAfterStatus(license_data)
    /\ UNCHANGED outside_l

LNext ==
    \/ RecordClientCreation \/ RecordDocumentUpload \/ RecordQuery
    \/ ExpireTrial
    \/ CanCreateClient \/ CanUploadDocument \/ CanMakeQuery

InitLicense == LInit /\ RIdle /\ NIdle /\ IIdle /\ EIdle /\ AIdle

SpecLicense == InitLicense /\ [][LNext]_vars

\* C15: License lockdown after expiration: on a trial license whose stored
\* trial_end is in the past, can_create_client, can_upload_document and
\* can_make_query each return False.
C15_LockdownAfterExpiration ==
    (/\ license_data.license_type # "pro"
     /\ license_data.trial_end # <<>>
     /\ license_data.trial_end[1] < 0
     /\ checked # "none") => ~allowed

(***************************************************************************)
(* THE ENGINE'S STORE UNDER CONCURRENT CALLS: rag_engine.py                *)
(*                                                                         *)
(* The routes of main.py are plain functions, which the server runs on a   *)
(* thread pool: calls of retrieve_relevant_chunks and of                   *)
(* ingest_client_documents on the one engine interleave between any two    *)
(* accesses of the engine's shared state.  That state is the Chroma        *)
(* client's collections, the cache self.client_collections and             *)
(* InMemoryVectorDB.data.  A step below is one such access.                *)
(*                                                                         *)
(* The embedding, the entity extraction and the ranking stages of a        *)
(* retrieval touch only the call's own records (specification SpecRank);   *)
(* here a retrieval is its collection lookup and its similarity search,    *)
(* whose result determines what the call returns.  The document            *)
(* processing and the embedding loop of an ingestion are in SpecIngest;    *)
(* here an ingestion starts with the records it is about to store.         *)
(* A stored record carries its distance from the query.                    *)
(***************************************************************************)
MaxRuns == 3

ENGINE_TOP_K == 5     \* RAGEngine.__init__(..., top_k: int = 5, ...)

Clients == {"a", "b"}
EngineMeetings == {"m1", "m2"}
NoMeeting == "none"   \* meeting_id=None
CallIds == {1, 2}

EngineChunk(c, m, i, v, d) ==
    [id |-> <<c, m, "chunk", i>>, content |-> v,
     metadata |-> [client_id |-> c, meeting_id |-> m], distance |-> d]

\* the records of the notes of client a, of a later version of its note m1,
\* and of client b
Batch_First ==
    <<EngineChunk("a", "m1", 0, "old", 10), EngineChunk("a", "m2", 0, "old", 20)>>
Batch_Again == <<EngineChunk("a", "m1", 0, "new", 30)>>
Batch_Other == <<EngineChunk("b", "m1", 0, "old", 5)>>
Batches(c) == IF c = "a" THEN {Batch_First, Batch_Again} ELSE {Batch_Other}

NoCollection == [exists |-> FALSE, docs |-> <<>>]
IdleCall ==
    [pc |-> "idle", client_id |-> "a", meeting_id |-> NoMeeting,
     relevant_chunks |-> <<>>, read_foreign |-> FALSE, missed |-> {}]
IdleWriter ==
    [pc |-> "idle", client_id |-> "a", force_reprocess |-> FALSE,
     batch |-> <<>>, existing_ids |-> {}, k |-> 1, replaced |-> {}]

\* if meeting_id and chunk['metadata'].get('meeting_id') != meeting_id: continue
\* and where={"meeting_id": meeting_id}
MeetingMatches(r, meeting_id) ==
    meeting_id = NoMeeting \/ r.metadata.meeting_id = meeting_id

\* results.sort(key=lambda x: x['distance']): a stable sort
RECURSIVE NearestFirst(_)
NearestFirst(recs) ==
    IF recs = <<>> THEN <<>>
    ELSE LET k == CHOOSE k \in 1..Len(recs) :
                     \A j \in 1..Len(recs) :
                         \/ recs[k].distance < recs[j].distance
                         \/ recs[k].distance = recs[j].distance /\ k <= j
         IN  <<recs[k]>> \o
             NearestFirst(SubSeq(recs, 1, k - 1) \o SubSeq(recs, k + 1, Len(recs)))

\* InMemoryVectorDB.query over every client's chunks
InMemoryQueryAllClients(data, client_id, meeting_id, n) ==
    LET every == Flatten([k \in 1..2 |-> data[IF k = 1 THEN "a" ELSE "b"]])
        found == NearestFirst(SelectSeq(every,
                     LAMBDA r : MeetingMatches(r, meeting_id)))
    IN  SubSeq(found, 1, Min2(n, Len(found)))

\* InMemoryVectorDB.query (lines 580-607)
InMemoryQuery(data, client_id, meeting_id, n) ==
    LET found == NearestFirst(SelectSeq(data[client_id],
                     LAMBDA r : MeetingMatches(r, meeting_id)))
    IN  SubSeq(found, 1, Min2(n, Len(found)))

\* collection.query(query_embeddings, n_results, where) and the formatting of
\* its results as chunks (lines 405-422)
CollectionQuery(docs, meeting_id, n) ==
    LET found == NearestFirst(SelectSeq(docs,
                     LAMBDA r : MeetingMatches(r, meeting_id)))
    IN  SubSeq(found, 1, Min2(n, Len(found)))

\* what is stored for a client
StoreOf(c) == IF engine_chroma THEN chroma_client[c].docs ELSE vector_db[c]

\* The engine as constructed.  chromadb.PersistentClient opens the directory
\* of earlier runs: it has no collection yet, or the notes of client a are
\* in it.  The cache and the in-memory store start empty.
EInit ==
    /\ engine_chroma \in BOOLEAN
    /\ chroma_client \in
           {[c \in Clients |-> NoCollection]} \cup
           {[c \in Clients |-> IF c = "a" /\ engine_chroma
                                THEN [exists |-> TRUE, docs |-> Batch_First]
                                ELSE NoCollection]}
    /\ client_collections = {}
    /\ vector_db = [c \in Clients |-> <<>>]
    /\ calls = [i \in CallIds |-> IdleCall]
    /\ writer = IdleWriter
    /\ cache_writer = [c \in Clients |-> 0]
    /\ ever_ingested = [c \in Clients |-> Records(chroma_client[c].docs)]
    /\ engine_runs = [retrievals |-> 0, ingestions |-> 0]

\* a call of retrieve_relevant_chunks(client_id, query, meeting_id) arrives
\* at line 397; without Chroma _get_client_collection returns self.vector_db
Retrieve(i) ==
    /\ calls[i].pc \in {"idle", "returned"}
    /\ engine_runs.retrievals + engine_runs.ingestions < MaxRuns
    /\ \E c \in Clients, m \in EngineMeetings \cup {NoMeeting} :
          calls' = [calls EXCEPT ![i] =
              [IdleCall EXCEPT !.pc = IF engine_chroma THEN "lookup" ELSE "query",
                               !.client_id = c, !.meeting_id = m]]
    /\ engine_runs' = [engine_runs EXCEPT !.retrievals = @ + 1]
    /\ UNCHANGED <<engine_chroma, chroma_client, client_collections, vector_db,
                   writer, cache_writer, ever_ingested>>
    /\ UNCHANGED outside_e

\* if collection_name not in self.client_collections: (line 106)
LookupCollection(i) ==
    /\ calls[i].pc = "lookup"
    /\ calls' = [calls EXCEPT
          ![i].pc = IF calls[i].client_id \in client_collections
                    THEN "fetch" ELSE "get",
          ![i].read_foreign = @ \/ cache_writer[calls[i].client_id] \notin {0, i}]
    /\ UNCHANGED <<engine_chroma, chroma_client, client_collections, vector_db,
                   writer, cache_writer, ever_ingested, engine_runs>>
    /\ UNCHANGED outside_e

\* collection = self.chroma_client.get_collection(collection_name), which
\* raises when there is no such collection (lines 107-110)
GetCollection(i) ==
    /\ calls[i].pc = "get"
    /\ calls' = [calls EXCEPT
          ![i].pc = IF chroma_client[calls[i].client_id].exists
                    THEN "cache" ELSE "create"]
    /\ UNCHANGED <<engine_chroma, chroma_client, client_collections, vector_db,
                   writer, cache_writer, ever_ingested, engine_runs>>
    /\ UNCHANGED outside_e

\* collection = self.chroma_client.create_collection(...) (lines 111-116).
\* When another call has created the collection since, the library raises
\* and the except clause of lines 462-464 returns [].
CreateCollection(i) ==
    /\ calls[i].pc = "create"
    /\ IF chroma_client[calls[i].client_id].exists
       THEN /\ calls' = [calls EXCEPT ![i].pc = "returned",
                                      ![i].relevant_chunks = <<>>]
            /\ UNCHANGED chroma_client
       ELSE /\ calls' = [calls EXCEPT ![i].pc = "cache"]
            /\ chroma_client' = [chroma_client EXCEPT
                   ![calls[i].client_id] = [exists |-> TRUE, docs |-> <<>>]]
    /\ UNCHANGED <<engine_chroma, client_collections, vector_db,
                   writer, cache_writer, ever_ingested, engine_runs>>
    /\ UNCHANGED outside_e

\* self.client_collections[collection_name] = collection (line 117)
CacheCollection(i) ==
    /\ calls[i].pc = "cache"
    /\ client_collections' = client_collections \cup {calls[i].client_id}
    /\ cache_writer' = [cache_writer EXCEPT ![calls[i].client_id] = i]
    /\ calls' = [calls EXCEPT ![i].pc = "fetch"]
    /\ UNCHANGED <<engine_chroma, chroma_client, vector_db,
                   writer, ever_ingested, engine_runs>>
    /\ UNCHANGED outside_e

\* return self.client_collections[collection_name] (line 119)
FetchCollection(i) ==
    /\ calls[i].pc = "fetch"
    /\ calls' = [calls EXCEPT
          ![i].pc = "query",
          ![i].read_foreign = @ \/ cache_writer[calls[i].client_id] \notin {0, i}]
    /\ UNCHANGED <<engine_chroma, chroma_client, client_collections, vector_db,
                   writer, cache_writer, ever_ingested, engine_runs>>
    /\ UNCHANGED outside_e

\* the chunks an ingestion of the same client is replacing at this moment
\* and that are not in the store
MissingNow(c) ==
    IF writer.pc # "idle" /\ writer.client_id = c
    THEN writer.replaced \ IdsOf(StoreOf(c))
    ELSE {}

\* the similarity search of lines 399-434 on given stores, with
\* n_results = initial_top_k for the engine's top_k
SearchIn(chroma, data, c, m) ==
    IF engine_chroma
    THEN CollectionQuery(chroma[c].docs, m, InitialTopK(ENGINE_TOP_K))
    ELSE InMemoryQuery(data, c, m, InitialTopK(ENGINE_TOP_K))

SearchStore(c, m) == SearchIn(chroma_client, vector_db, c, m)

\* the similarity search (lines 399-434); the call then ranks what it found
\* and returns
QueryStore(i) ==
    /\ calls[i].pc = "query"
    /\ calls' = [calls EXCEPT
          ![i].pc = "returned",
          ![i].relevant_chunks =
              SearchStore(calls[i].client_id, calls[i].meeting_id),
          ![i].missed = MissingNow(calls[i].client_id)]
    /\ cache_writer' = [c \in Clients |->
                            IF cache_writer[c] = i THEN 0 ELSE cache_writer[c]]
    /\ UNCHANGED <<engine_chroma, chroma_client, client_collections, vector_db,
                   writer, ever_ingested, engine_runs>>
    /\ UNCHANGED outside_e

\* a call of ingest_client_documents(client_id, force_reprocess) has its
\* chunks and gets the client's collection (line 142), creating and caching
\* it when needed
Ingest ==
    /\ writer.pc = "idle"
    /\ engine_runs.retrievals + engine_runs.ingestions < MaxRuns
    /\ \E c \in Clients, force \in BOOLEAN :
          \E batch \in Batches(c) :
             /\ writer' = [IdleWriter EXCEPT
                    !.pc = IF engine_chroma THEN "existing" ELSE "remove",
                    !.client_id = c, !.force_reprocess = force,
                    !.batch = batch,
                    !.replaced = IdsOf(batch) \cap IdsOf(StoreOf(c))]
             /\ chroma_client' =
                    IF engine_chroma /\ ~chroma_client[c].exists
                    THEN [chroma_client EXCEPT
                             ![c] = [exists |-> TRUE, docs |-> <<>>]]
                    ELSE chroma_client
             /\ client_collections' =
                    IF engine_chroma THEN client_collections \cup {c}
                    ELSE client_collections
    /\ engine_runs' = [engine_runs EXCEPT !.ingestions = @ + 1]
    /\ UNCHANGED <<engine_chroma, vector_db, calls, cache_writer,
                   ever_ingested>>
    /\ UNCHANGED outside_e

\* existing_ids = set(collection.get()['ids']) (lines 177-182)
GetExisting ==
    /\ writer.pc = "existing"
    /\ LET ids == IdsOf(chroma_client[writer.client_id].docs)
       IN  writer' = [writer EXCEPT
               !.existing_ids = ids,
               !.pc = IF writer.force_reprocess
                         /\ IdsOf(writer.batch) \cap ids # {}
                      THEN "delete" ELSE "add"]
    /\ UNCHANGED <<engine_chroma, chroma_client, client_collections, vector_db,
                   calls, cache_writer, ever_ingested, engine_runs>>
    /\ UNCHANGED outside_e

\* collection.delete(ids=ids_to_delete) (lines 184-188)
DeleteExisting ==
    /\ writer.pc = "delete"
    /\ chroma_client' = [chroma_client EXCEPT ![writer.client_id].docs =
           ChromaDelete(@, IdsOf(writer.batch) \cap writer.existing_ids)]
    /\ writer' = [writer EXCEPT !.pc = "add"]
    /\ UNCHANGED <<engine_chroma, client_collections, vector_db,
                   calls, cache_writer, ever_ingested, engine_runs>>
    /\ UNCHANGED outside_e

\* the records collection.add receives (lines 190-201); <<>> when the call
\* returns before it
NewData(w) ==
    IF w.force_reprocess THEN w.batch
    ELSE SelectSeq(w.batch, LAMBDA r : r.id \notin w.existing_ids)

\* collection.add(...) (lines 210-215), and the call returns
AddToCollection ==
    /\ writer.pc = "add"
    /\ chroma_client' = [chroma_client EXCEPT ![writer.client_id].docs =
           IF NewData(writer) = <<>> THEN @ ELSE ChromaAdd(@, NewData(writer))]
    /\ ever_ingested' = [ever_ingested EXCEPT ![writer.client_id] =
           @ \cup Records(NewData(writer))]
    /\ writer' = IdleWriter
    /\ UNCHANGED <<engine_chroma, client_collections, vector_db,
                   calls, cache_writer, engine_runs>>
    /\ UNCHANGED outside_e

\* InMemoryVectorDB.add, line 577:
\* self.data[client_id] = [c for c in self.data[client_id] if c['id'] != chunk_id]
RemoveFromMemory ==
    /\ writer.pc = "remove"
    /\ vector_db' = [vector_db EXCEPT ![writer.client_id] =
           SelectSeq(@, LAMBDA r : r.id # writer.batch[writer.k].id)]
    /\ writer' = [writer EXCEPT !.pc = "append"]
    /\ UNCHANGED <<engine_chroma, chroma_client, client_collections,
                   calls, cache_writer, ever_ingested, engine_runs>>
    /\ UNCHANGED outside_e

\* InMemoryVectorDB.add, line 578: self.data[client_id].append(chunk_data),
\* then the next chunk of the loop of lines 218-225, or the call returns
AppendToMemory ==
    /\ writer.pc = "append"
    /\ vector_db' = [vector_db EXCEPT ![writer.client_id] =
           Append(@, writer.batch[writer.k])]
    /\ ever_ingested' = [ever_ingested EXCEPT ![writer.client_id] =
           @ \cup {writer.batch[writer.k]}]
    /\ writer' = IF writer.k < Len(writer.batch)
                 THEN [writer EXCEPT !.pc = "remove", !.k = @ + 1]
                 ELSE IdleWriter
    /\ UNCHANGED <<engine_chroma, chroma_client, client_collections,
                   calls, cache_writer, engine_runs>>
    /\ UNCHANGED outside_e

ENext ==
    \/ \E i \in CallIds :
          \/ Retrieve(i) \/ LookupCollection(i) \/ GetCollection(i)
          \/ CreateCollection(i) \/ CacheCollection(i) \/ FetchCollection(i)
          \/ QueryStore(i)
    \/ Ingest \/ GetExisting \/ DeleteExisting \/ AddToCollection
    \/ RemoveFromMemory \/ AppendToMemory

InitEngine == EInit /\ RIdle /\ NIdle /\ IIdle /\ LIdle /\ AIdle

SpecEngine == InitEngine /\ [][ENext]_vars

\* C22: Retrieval performs no writes: no step of a call of
\* retrieve_relevant_chunks, for a client that was ingested or for one that
\* never was, changes the Chroma collections (which of them exist and what
\* they hold) or the in-memory store.
C22_RetrievalNoWrites ==
    [][calls' # calls =>
          (chroma_client' = chroma_client /\ vector_db' = vector_db)]_vars

\* no ingestion was started since the engine was constructed
NoIngestionYet == engine_runs.ingestions = 0

\* C23: Concurrent queries: of two interleaved calls of
\* retrieve_relevant_chunks on one engine, neither reads mutable state that
\* the other, still running, has written, and each returns what the search
\* of the store gives for its own client and meeting filter.
C23_ConcurrentQueries ==
    \A i \in CallIds :
        calls[i].pc = "returned" =>
            /\ ~calls[i].read_foreign
            /\ NoIngestionYet =>
                   calls[i].relevant_chunks =
                       SearchStore(calls[i].client_id, calls[i].meeting_id)

\* every chunk a returned call found is a chunk that was ingested for the
\* call's client and, under a meeting filter, a chunk of that meeting
FoundOwnChunks ==
    \A i \in CallIds :
        calls[i].pc = "returned" =>
            \A k \in 1..Len(calls[i].relevant_chunks) :
                LET r == calls[i].relevant_chunks[k]
                IN  /\ r.metadata.client_id = calls[i].client_id
                    /\ r \in ever_ingested[calls[i].client_id]
                    /\ calls[i].meeting_id # NoMeeting =>
                           r.metadata.meeting_id = calls[i].meeting_id

\* what a search for a client finds changes only in a step of an ingestion
\* for that client
OnlyOwnIngestionChanges ==
    \A c \in Clients, m \in EngineMeetings \cup {NoMeeting} :
        SearchIn(chroma_client', vector_db', c, m) # SearchStore(c, m) =>
            (writer.pc # "idle" /\ writer.client_id = c)

\* C28: Client and meeting isolation: a retrieval for a client returns only
\* chunks that were ingested for that client, with a meeting filter only
\* chunks of that meeting, and no change of another client's stored chunks
\* changes what the retrieval finds.  No call has returned in the initial
\* state, so the first conjunct is stated of the state each step leads to.
C28_ClientMeetingIsolation ==
    [][FoundOwnChunks' /\ OnlyOwnIngestionChanges]_vars

\* a call for client a under the filter m1 has found chunks while a nearer
\* chunk of client b and a chunk of meeting m2 are stored
C28_Witness ==
    \E i \in CallIds :
        /\ calls[i].pc = "returned"
        /\ calls[i].client_id = "a"
        /\ calls[i].meeting_id = "m1"
        /\ calls[i].relevant_chunks # <<>>
        /\ StoreOf("b") # <<>>
        /\ \E k \in 1..Len(StoreOf("a")) :
               StoreOf("a")[k].metadata.meeting_id = "m2"

\* C29: Re-ingestion is atomic to readers: a retrieval whose search runs
\* while an ingestion of the same client is replacing chunks that were
\* stored before (delete then add, or remove then append) never reads a
\* store from which one of those chunks is absent.
C29_AtomicReingestion ==
    \A i \in CallIds : calls[i].pc = "returned" => calls[i].missed = {}

(***************************************************************************)
(* THE QUERY ROUTES: main.py query_docs and query_docs_stream               *)
(*                                                                         *)
(* A Python call binds its positional arguments to the first parameters    *)
(* of the function and each keyword argument to the parameter of that      *)
(* name; a keyword that names no parameter raises TypeError before the     *)
(* body of the function runs.                                              *)
(***************************************************************************)
\* def generate_response(self, client_id, query, meeting_id=None)
GenerateResponseParams == <<"client_id", "query", "meeting_id">>
\* def retrieve_relevant_chunks(self, client_id, query, meeting_id=None,
\*                              top_k=None)
RetrieveRelevantChunksParams == <<"client_id", "query", "meeting_id", "top_k">>

\* engine.generate_response(client_id=..., query=..., meeting_ids=...)
QueryDocsCall ==
    [positional |-> 0, keywords |-> {"client_id", "query", "meeting_ids"}]
\* engine.retrieve_relevant_chunks(req.client_id, req.query, meeting_ids=...)
QueryDocsStreamCall == [positional |-> 2, keywords |-> {"meeting_ids"}]

\* the call binds: every keyword names a parameter that no positional
\* argument has taken
Binds(params, call) ==
    /\ call.positional <= Len(params)
    /\ \A kw \in call.keywords :
           \E k \in (call.positional + 1)..Len(params) : params[k] = kw

\* what the engine does once its method runs: it answers from chunks, it
\* finds no chunk, or retrieval or generation fails inside it
EngineOutcomes == {"answers", "no_chunks", "fails"}

NoMeetingIds == <<>>
Requests ==
    [route : {"/query", "/query/stream"},
     client_id : {"a", "b"},
     query : {"q1", "q2", "q3"},
     meeting_ids : {NoMeetingIds, <<"m1">>, <<"m1", "m2">>}]

NoResponse == [kind |-> "none", engine |-> "none", sources |-> <<>>]

\* generate_response (rag_engine.py lines 466-517) never raises: it returns
\* its answer with the sources, its no-information answer, or, from its own
\* except clause, 'I encountered an error while processing your query.'
GenerateResponse(r, outcome) ==
    [kind |-> IF outcome = "answers" THEN "answer"
              ELSE IF outcome = "no_chunks" THEN "no_information"
              ELSE "engine_error",
     engine |-> outcome,
     sources |-> IF outcome = "answers" THEN <<r.client_id>> ELSE <<>>]

\* the generator of query_docs_stream once retrieve_relevant_chunks has run
\* (main.py lines 149-214): the metadata and the tokens, the not-found
\* message, or the error event of its except clause
StreamResponse(r, outcome) ==
    [kind |-> IF outcome = "answers" THEN "answer"
              ELSE IF outcome = "no_chunks" THEN "no_information"
              ELSE "error_processing_query",
     engine |-> outcome,
     sources |-> IF outcome = "answers" THEN <<r.client_id>> ELSE <<>>]

\* 'Error processing query: ...' for an exception that reached the route
ErrorProcessingQuery ==
    [kind |-> "error_processing_query", engine |-> "none", sources |-> <<>>]

AInit ==
    /\ api_pc = "received"
    /\ req \in Requests
    /\ can_use \in BOOLEAN
    /\ entered = "none"
    /\ response = NoResponse

\* POST /query (main.py lines 110-135)
QueryDocs ==
    /\ api_pc = "received"
    /\ req.route = "/query"
    /\ \E outcome \in EngineOutcomes :
          LET bound == Binds(GenerateResponseParams, QueryDocsCall)
          IN  /\ entered' = IF can_use /\ bound THEN "generate_response"
                            ELSE "none"
              /\ response' =
                    IF ~can_use
                    THEN [kind |-> "trial_ended", engine |-> "none",
                          sources |-> <<>>]
                    ELSE IF ~bound THEN ErrorProcessingQuery
                    ELSE GenerateResponse(req, outcome)
    /\ api_pc' = "responded"
    /\ UNCHANGED <<req, can_use>>
    /\ UNCHANGED outside_a

\* POST /query/stream (main.py lines 137-224); the route does not ask the
\* license manager
QueryDocsStream ==
    /\ api_pc = "received"
    /\ req.route = "/query/stream"
    /\ \E outcome \in EngineOutcomes :
          LET bound == Binds(RetrieveRelevantChunksParams, QueryDocsStreamCall)
          IN  /\ entered' = IF bound THEN "retrieve_relevant_chunks"
                            ELSE "none"
              /\ response' = IF ~bound THEN ErrorProcessingQuery
                             ELSE StreamResponse(req, outcome)
    /\ api_pc' = "responded"
    /\ UNCHANGED <<req, can_use>>
    /\ UNCHANGED outside_a

ANext == QueryDocs \/ QueryDocsStream

InitRoute == AInit /\ RIdle /\ NIdle /\ IIdle /\ LIdle /\ EIdle

SpecRoute == InitRoute /\ [][ANext]_vars

\* C30: Query route reaches the engine: while the trial is valid, a POST
\* /query or /query/stream runs the engine's retrieval or generation entry
\* point with the request's client id, query and meeting filter, and it
\* answers 'Error processing query' only when retrieval or generation
\* itself has failed.
C30_QueryRouteReachesEngine ==
    (api_pc = "responded" /\ can_use) =>
        /\ entered # "none"
        /\ response.kind = "error_processing_query" =>
               response.engine = "fails"

====
